---- MODULE Spec2Model ----
\* A model of the Wisper voice-transcription system: the correction-learning
\* pipeline and pattern store (ClaudeWhisperIntegration), the category
\* classifier, and the record store with brute-force similarity search
\* (IntegratedVoiceRAGSystem, VoiceRAGSystem).
EXTENDS Integers, Sequences, FiniteSets, TLC

\* ---------------------------------------------------------------------------
\* Text: Python str operations over sequences of characters
\* ---------------------------------------------------------------------------

\* The characters Python's str.strip(), str.split() and the regex class \s
\* treat as whitespace (those that occur in the modelled texts).
IsSpace(c) == c \in {" ", "\t", "\n", "\r", "u3000"}

\* The regex class \d (ASCII digits).
IsDigit(c) == c \in {"0", "1", "2", "3", "4", "5", "6", "7", "8", "9"}

\* s[i:].startswith(p)
StartsWith(s, i, p) ==
  /\ i + Len(p) - 1 <= Len(s)
  /\ SubSeq(s, i, i + Len(p) - 1) = p

\* p in s, for a non-empty p
Contains(s, p) == \E i \in 1..Len(s) : StartsWith(s, i, p)

RECURSIVE ReplaceFrom(_, _, _, _)
ReplaceFrom(s, old, new, i) ==
  IF i > Len(s) THEN <<>>
  ELSE IF StartsWith(s, i, old)
       THEN new \o ReplaceFrom(s, old, new, i + Len(old))
       ELSE <<s[i]>> \o ReplaceFrom(s, old, new, i + 1)

\* s.replace(old, new): every non-overlapping occurrence, scanning left to
\* right (old is non-empty).
Replace(s, old, new) == ReplaceFrom(s, old, new, 1)

RECURSIVE CountFrom(_, _, _)
CountFrom(s, p, i) ==
  IF i > Len(s) THEN 0
  ELSE IF StartsWith(s, i, p)
       THEN 1 + CountFrom(s, p, i + Len(p))
       ELSE CountFrom(s, p, i + 1)

\* s.count(p): the number of non-overlapping occurrences (p is non-empty).
Count(s, p) == CountFrom(s, p, 1)

\* The character classes of the patterns: \s, [^\s], = , 。 and 、
InClass(class, c) ==
  CASE class = "space" -> IsSpace(c)
    [] class = "nonspace" -> ~IsSpace(c)
    [] class = "equals" -> c = "="
    [] class = "kuten" -> c = "u3002"
    [] class = "touten" -> c = "u3001"

\* The length of the run of characters of a class that starts at s[i].
RECURSIVE RunLen(_, _, _)
RunLen(class, s, i) ==
  IF i > Len(s) \/ ~InClass(class, s[i]) THEN 0
  ELSE 1 + RunLen(class, s, i + 1)

\* r'https?://[^\s]+'
MatchUrl(s, i) ==
  LET p == IF StartsWith(s, i, <<"h", "t", "t", "p", "s", ":", "/", "/">>) THEN 8
           ELSE IF StartsWith(s, i, <<"h", "t", "t", "p", ":", "/", "/">>) THEN 7
           ELSE 0
      run == RunLen("nonspace", s, i + p)
  IN  IF p = 0 \/ run = 0 THEN 0 ELSE p + run

Digits(s, i, n) ==
  /\ i + n - 1 <= Len(s)
  /\ \A j \in i..(i + n - 1) : IsDigit(s[j])

\* r'\d{4}-\d{2}-\d{2}\s+\d{2}:\d{2}:\d{2}'
MatchTimestamp(s, i) ==
  LET ws == RunLen("space", s, i + 10)
      t == i + 10 + ws
  IN  IF /\ Digits(s, i, 4) /\ StartsWith(s, i + 4, <<"-">>)
         /\ Digits(s, i + 5, 2) /\ StartsWith(s, i + 7, <<"-">>)
         /\ Digits(s, i + 8, 2) /\ ws > 0
         /\ Digits(s, t, 2) /\ StartsWith(s, t + 2, <<":">>)
         /\ Digits(s, t + 3, 2) /\ StartsWith(s, t + 5, <<":">>)
         /\ Digits(s, t + 6, 2)
      THEN 10 + ws + 8
      ELSE 0

\* r'=+'
MatchEquals(s, i) == RunLen("equals", s, i)

\* r':\s*!\s*:'
MatchBang(s, i) ==
  LET a == RunLen("space", s, i + 1)
      b == RunLen("space", s, i + 1 + a + 1)
  IN  IF /\ StartsWith(s, i, <<":">>)
         /\ StartsWith(s, i + 1 + a, <<"!">>)
         /\ StartsWith(s, i + 1 + a + 1 + b, <<":">>)
      THEN 1 + a + 1 + b + 1
      ELSE 0

\* r'。{2,}'
MatchKuten(s, i) ==
  LET n == RunLen("kuten", s, i) IN IF n >= 2 THEN n ELSE 0

\* r'、{2,}'
MatchTouten(s, i) ==
  LET n == RunLen("touten", s, i) IN IF n >= 2 THEN n ELSE 0

\* r'\s+'
MatchSpaces(s, i) == RunLen("space", s, i)

\* The length of the match of a pattern of _clean_text_basic that starts
\* at s[i], 0 when there is none (none of the patterns matches empty).
MatchAt(pattern, s, i) ==
  CASE pattern = "url" -> MatchUrl(s, i)
    [] pattern = "timestamp" -> MatchTimestamp(s, i)
    [] pattern = "equals" -> MatchEquals(s, i)
    [] pattern = "bang" -> MatchBang(s, i)
    [] pattern = "kuten" -> MatchKuten(s, i)
    [] pattern = "touten" -> MatchTouten(s, i)
    [] pattern = "spaces" -> MatchSpaces(s, i)

\* re.sub(pattern, rep, s) from s[i] on: leftmost matches, left to right.
RECURSIVE SubFrom(_, _, _, _)
SubFrom(pattern, rep, s, i) ==
  IF i > Len(s) THEN <<>>
  ELSE IF MatchAt(pattern, s, i) > 0
       THEN rep \o SubFrom(pattern, rep, s, i + MatchAt(pattern, s, i))
       ELSE <<s[i]>> \o SubFrom(pattern, rep, s, i + 1)

ReSub(pattern, rep, s) == SubFrom(pattern, rep, s, 1)

RECURSIVE LStrip(_)
LStrip(s) == IF s # <<>> /\ IsSpace(Head(s)) THEN LStrip(Tail(s)) ELSE s

RECURSIVE RStrip(_)
RStrip(s) ==
  IF s # <<>> /\ IsSpace(s[Len(s)]) THEN RStrip(SubSeq(s, 1, Len(s) - 1)) ELSE s

\* s.strip()
Strip(s) == RStrip(LStrip(s))

RECURSIVE SplitFrom(_, _)
SplitFrom(s, i) ==
  IF i > Len(s) THEN <<>>
  ELSE IF IsSpace(s[i]) THEN SplitFrom(s, i + 1)
  ELSE LET n == RunLen("nonspace", s, i)
       IN  <<SubSeq(s, i, i + n - 1)>> \o SplitFrom(s, i + n)

\* s.split(): the whitespace-delimited tokens
Split(s) == SplitFrom(s, 1)

\* The ASCII part of str.lower().
LowerChar(c) ==
  LET up == <<"A", "B", "C", "D", "E", "F", "G", "H", "I", "J", "K", "L", "M",
              "N", "O", "P", "Q", "R", "S", "T", "U", "V", "W", "X", "Y", "Z">>
      lo == <<"a", "b", "c", "d", "e", "f", "g", "h", "i", "j", "k", "l", "m",
              "n", "o", "p", "q", "r", "s", "t", "u", "v", "w", "x", "y", "z">>
  IN  IF \E k \in 1..26 : up[k] = c
      THEN lo[CHOOSE k \in 1..26 : up[k] = c]
      ELSE c

\* s.lower()
Lower(s) == [i \in 1..Len(s) |-> LowerChar(s[i])]

\* _clean_text_basic
_clean_text_basic(text) ==
  LET t1 == ReSub("url", <<>>, text)
      t2 == ReSub("timestamp", <<>>, t1)
      t3 == ReSub("equals", <<>>, t2)
      t4 == ReSub("bang", <<>>, t3)
      t5 == ReSub("kuten", <<"u3002">>, t4)
      t6 == ReSub("touten", <<"u3001">>, t5)
      t7 == ReSub("spaces", <<" ">>, t6)
  IN  Strip(t7)

\* Texts are sequences of characters. An ASCII character is written as itself;
\* any other character is written "uXXXX" after its code point (TLA+ strings
\* are ASCII). The comment before each table entry gives the source string.

\* whisper_patterns: the built-in dictionary, in declaration order.
whisper_patterns ==
  <<
    \* '地民党': '自民党'
    [key |-> <<"u5730", "u6C11", "u515A">>,
     val |-> <<"u81EA", "u6C11", "u515A">>],
    \* '石橋ロシ': '石破茂'
    [key |-> <<"u77F3", "u6A4B", "u30ED", "u30B7">>,
     val |-> <<"u77F3", "u7834", "u8302">>],
    \* '急安部派': '旧安倍派'
    [key |-> <<"u6025", "u5B89", "u90E8", "u6D3E">>,
     val |-> <<"u65E7", "u5B89", "u500D", "u6D3E">>],
    \* '党生年局': '党執行部'
    [key |-> <<"u515A", "u751F", "u5E74", "u5C40">>,
     val |-> <<"u515A", "u57F7", "u884C", "u90E8">>],
    \* '党主': '党首'
    [key |-> <<"u515A", "u4E3B">>,
     val |-> <<"u515A", "u9996">>],
    \* '階段': '会談'
    [key |-> <<"u968E", "u6BB5">>,
     val |-> <<"u4F1A", "u8AC7">>],
    \* '手動': '支持'
    [key |-> <<"u624B", "u52D5">>,
     val |-> <<"u652F", "u6301">>],
    \* 'わわれな': '哀れな'
    [key |-> <<"u308F", "u308F", "u308C", "u306A">>,
     val |-> <<"u54C0", "u308C", "u306A">>],
    \* '溜まるか': 'たまるか'
    [key |-> <<"u6E9C", "u307E", "u308B", "u304B">>,
     val |-> <<"u305F", "u307E", "u308B", "u304B">>],
    \* '駄目に': 'だめに'
    [key |-> <<"u99C4", "u76EE", "u306B">>,
     val |-> <<"u3060", "u3081", "u306B">>],
    \* '異見': '意見'
    [key |-> <<"u7570", "u898B">>,
     val |-> <<"u610F", "u898B">>],
    \* '腐り切ってる': '腐りきっている'
    [key |-> <<"u8150", "u308A", "u5207", "u3063", "u3066", "u308B">>,
     val |-> <<"u8150", "u308A", "u304D", "u3063", "u3066", "u3044", "u308B">>],
    \* 'ガソリンを': 'ガソリン税を'
    [key |-> <<"u30AC", "u30BD", "u30EA", "u30F3", "u3092">>,
     val |-> <<"u30AC", "u30BD", "u30EA", "u30F3", "u7A0E", "u3092">>],
    \* '販売担保': '販売価格'
    [key |-> <<"u8CA9", "u58F2", "u62C5", "u4FDD">>,
     val |-> <<"u8CA9", "u58F2", "u4FA1", "u683C">>],
    \* 'さっさに進化': '先走り'
    [key |-> <<"u3055", "u3063", "u3055", "u306B", "u9032", "u5316">>,
     val |-> <<"u5148", "u8D70", "u308A">>],
    \* 'ガソスタ': 'ガソリンスタンド'
    [key |-> <<"u30AC", "u30BD", "u30B9", "u30BF">>,
     val |-> <<"u30AC", "u30BD", "u30EA", "u30F3", "u30B9", "u30BF", "u30F3", "u30C9">>]
  >>

\* category_folders: the enumerated category set (keys) with their folders.
category_folders ==
  <<
    \* 'ビジネス・経営': 'business'
    [key |-> <<"u30D3", "u30B8", "u30CD", "u30B9", "u30FB", "u7D4C", "u55B6">>, folder |-> "business"],
    \* '技術・プログラミング': 'technology'
    [key |-> <<"u6280", "u8853", "u30FB", "u30D7", "u30ED", "u30B0", "u30E9", "u30DF", "u30F3", "u30B0">>, folder |-> "technology"],
    \* '教育・学習': 'education'
    [key |-> <<"u6559", "u80B2", "u30FB", "u5B66", "u7FD2">>, folder |-> "education"],
    \* 'エンターテイメント': 'entertainment'
    [key |-> <<"u30A8", "u30F3", "u30BF", "u30FC", "u30C6", "u30A4", "u30E1", "u30F3", "u30C8">>, folder |-> "entertainment"],
    \* '日常・ライフスタイル': 'lifestyle'
    [key |-> <<"u65E5", "u5E38", "u30FB", "u30E9", "u30A4", "u30D5", "u30B9", "u30BF", "u30A4", "u30EB">>, folder |-> "lifestyle"],
    \* 'ニュース・時事': 'news'
    [key |-> <<"u30CB", "u30E5", "u30FC", "u30B9", "u30FB", "u6642", "u4E8B">>, folder |-> "news"],
    \* '健康・医療': 'health'
    [key |-> <<"u5065", "u5EB7", "u30FB", "u533B", "u7642">>, folder |-> "health"],
    \* '料理・グルメ': 'cooking'
    [key |-> <<"u6599", "u7406", "u30FB", "u30B0", "u30EB", "u30E1">>, folder |-> "cooking"],
    \* '旅行・観光': 'travel'
    [key |-> <<"u65C5", "u884C", "u30FB", "u89B3", "u5149">>, folder |-> "travel"],
    \* 'スポーツ・フィットネス': 'sports'
    [key |-> <<"u30B9", "u30DD", "u30FC", "u30C4", "u30FB", "u30D5", "u30A3", "u30C3", "u30C8", "u30CD", "u30B9">>, folder |-> "sports"],
    \* '音楽・アート': 'music_art'
    [key |-> <<"u97F3", "u697D", "u30FB", "u30A2", "u30FC", "u30C8">>, folder |-> "music_art"],
    \* 'ゲーム': 'gaming'
    [key |-> <<"u30B2", "u30FC", "u30E0">>, folder |-> "gaming"],
    \* '科学・研究': 'science'
    [key |-> <<"u79D1", "u5B66", "u30FB", "u7814", "u7A76">>, folder |-> "science"],
    \* '政治・社会': 'politics'
    [key |-> <<"u653F", "u6CBB", "u30FB", "u793E", "u4F1A">>, folder |-> "politics"],
    \* 'その他': 'others'
    [key |-> <<"u305D", "u306E", "u4ED6">>, folder |-> "others"]
  >>

\* category_keywords: the fallback keyword table, in declaration order.
category_keywords ==
  <<
    \* 'ビジネス・経営': 会議, 売上, マーケティング, 戦略, 予算, 顧客, 営業, 経営, 投資, ビジネス, 企業, 会社
    [key |-> <<"u30D3", "u30B8", "u30CD", "u30B9", "u30FB", "u7D4C", "u55B6">>,
     keywords |-> <<
       <<"u4F1A", "u8B70">>,
       <<"u58F2", "u4E0A">>,
       <<"u30DE", "u30FC", "u30B1", "u30C6", "u30A3", "u30F3", "u30B0">>,
       <<"u6226", "u7565">>,
       <<"u4E88", "u7B97">>,
       <<"u9867", "u5BA2">>,
       <<"u55B6", "u696D">>,
       <<"u7D4C", "u55B6">>,
       <<"u6295", "u8CC7">>,
       <<"u30D3", "u30B8", "u30CD", "u30B9">>,
       <<"u4F01", "u696D">>,
       <<"u4F1A", "u793E">>
     >>],
    \* '技術・プログラミング': プログラミング, AI, システム, アプリ, ソフトウェア, データベース, API, クラウド, アルゴリズム, コンピュータ, IT, DX
    [key |-> <<"u6280", "u8853", "u30FB", "u30D7", "u30ED", "u30B0", "u30E9", "u30DF", "u30F3", "u30B0">>,
     keywords |-> <<
       <<"u30D7", "u30ED", "u30B0", "u30E9", "u30DF", "u30F3", "u30B0">>,
       <<"A", "I">>,
       <<"u30B7", "u30B9", "u30C6", "u30E0">>,
       <<"u30A2", "u30D7", "u30EA">>,
       <<"u30BD", "u30D5", "u30C8", "u30A6", "u30A7", "u30A2">>,
       <<"u30C7", "u30FC", "u30BF", "u30D9", "u30FC", "u30B9">>,
       <<"A", "P", "I">>,
       <<"u30AF", "u30E9", "u30A6", "u30C9">>,
       <<"u30A2", "u30EB", "u30B4", "u30EA", "u30BA", "u30E0">>,
       <<"u30B3", "u30F3", "u30D4", "u30E5", "u30FC", "u30BF">>,
       <<"I", "T">>,
       <<"D", "X">>
     >>],
    \* '政治・社会': 政治, 選挙, 政策, 国会, 議員, 政府, 自民党, 政党, 首相, 大臣, 法律, 制度, 改革, 社会問題
    [key |-> <<"u653F", "u6CBB", "u30FB", "u793E", "u4F1A">>,
     keywords |-> <<
       <<"u653F", "u6CBB">>,
       <<"u9078", "u6319">>,
       <<"u653F", "u7B56">>,
       <<"u56FD", "u4F1A">>,
       <<"u8B70", "u54E1">>,
       <<"u653F", "u5E9C">>,
       <<"u81EA", "u6C11", "u515A">>,
       <<"u653F", "u515A">>,
       <<"u9996", "u76F8">>,
       <<"u5927", "u81E3">>,
       <<"u6CD5", "u5F8B">>,
       <<"u5236", "u5EA6">>,
       <<"u6539", "u9769">>,
       <<"u793E", "u4F1A", "u554F", "u984C">>
     >>],
    \* 'ニュース・時事': ニュース, 報道, 事件, 社会, 経済, 国際, 速報, 記者会見, 発表, 調査
    [key |-> <<"u30CB", "u30E5", "u30FC", "u30B9", "u30FB", "u6642", "u4E8B">>,
     keywords |-> <<
       <<"u30CB", "u30E5", "u30FC", "u30B9">>,
       <<"u5831", "u9053">>,
       <<"u4E8B", "u4EF6">>,
       <<"u793E", "u4F1A">>,
       <<"u7D4C", "u6E08">>,
       <<"u56FD", "u969B">>,
       <<"u901F", "u5831">>,
       <<"u8A18", "u8005", "u4F1A", "u898B">>,
       <<"u767A", "u8868">>,
       <<"u8ABF", "u67FB">>
     >>],
    \* 'エンターテイメント': 映画, 音楽, アニメ, ゲーム, 芸能, ちいかわ, ドラマ, バラエティ, アイドル, 俳優, 歌手
    [key |-> <<"u30A8", "u30F3", "u30BF", "u30FC", "u30C6", "u30A4", "u30E1", "u30F3", "u30C8">>,
     keywords |-> <<
       <<"u6620", "u753B">>,
       <<"u97F3", "u697D">>,
       <<"u30A2", "u30CB", "u30E1">>,
       <<"u30B2", "u30FC", "u30E0">>,
       <<"u82B8", "u80FD">>,
       <<"u3061", "u3044", "u304B", "u308F">>,
       <<"u30C9", "u30E9", "u30DE">>,
       <<"u30D0", "u30E9", "u30A8", "u30C6", "u30A3">>,
       <<"u30A2", "u30A4", "u30C9", "u30EB">>,
       <<"u4FF3", "u512A">>,
       <<"u6B4C", "u624B">>
     >>],
    \* '料理・グルメ': 料理, レシピ, 食材, グルメ, あげ玉, そうめん, 食事, 調理, レストラン, 美味しい, 食べ物
    [key |-> <<"u6599", "u7406", "u30FB", "u30B0", "u30EB", "u30E1">>,
     keywords |-> <<
       <<"u6599", "u7406">>,
       <<"u30EC", "u30B7", "u30D4">>,
       <<"u98DF", "u6750">>,
       <<"u30B0", "u30EB", "u30E1">>,
       <<"u3042", "u3052", "u7389">>,
       <<"u305D", "u3046", "u3081", "u3093">>,
       <<"u98DF", "u4E8B">>,
       <<"u8ABF", "u7406">>,
       <<"u30EC", "u30B9", "u30C8", "u30E9", "u30F3">>,
       <<"u7F8E", "u5473", "u3057", "u3044">>,
       <<"u98DF", "u3079", "u7269">>
     >>],
    \* 'スポーツ・フィットネス': スポーツ, フィットネス, 運動, トレーニング, 競技, 筋トレ, 野球, サッカー, MVP, 大谷翔平, 大谷, ジャッジ, ドジャース, ヤンキース, メジャーリーグ, MLB, バスケ, テニス, ゴルフ
    [key |-> <<"u30B9", "u30DD", "u30FC", "u30C4", "u30FB", "u30D5", "u30A3", "u30C3", "u30C8", "u30CD", "u30B9">>,
     keywords |-> <<
       <<"u30B9", "u30DD", "u30FC", "u30C4">>,
       <<"u30D5", "u30A3", "u30C3", "u30C8", "u30CD", "u30B9">>,
       <<"u904B", "u52D5">>,
       <<"u30C8", "u30EC", "u30FC", "u30CB", "u30F3", "u30B0">>,
       <<"u7AF6", "u6280">>,
       <<"u7B4B", "u30C8", "u30EC">>,
       <<"u91CE", "u7403">>,
       <<"u30B5", "u30C3", "u30AB", "u30FC">>,
       <<"M", "V", "P">>,
       <<"u5927", "u8C37", "u7FD4", "u5E73">>,
       <<"u5927", "u8C37">>,
       <<"u30B8", "u30E3", "u30C3", "u30B8">>,
       <<"u30C9", "u30B8", "u30E3", "u30FC", "u30B9">>,
       <<"u30E4", "u30F3", "u30AD", "u30FC", "u30B9">>,
       <<"u30E1", "u30B8", "u30E3", "u30FC", "u30EA", "u30FC", "u30B0">>,
       <<"M", "L", "B">>,
       <<"u30D0", "u30B9", "u30B1">>,
       <<"u30C6", "u30CB", "u30B9">>,
       <<"u30B4", "u30EB", "u30D5">>
     >>],
    \* '教育・学習': 学習, 授業, 講義, 試験, 研究, 論文, 学生, 教育, 勉強, 資格, 大学, 学校
    [key |-> <<"u6559", "u80B2", "u30FB", "u5B66", "u7FD2">>,
     keywords |-> <<
       <<"u5B66", "u7FD2">>,
       <<"u6388", "u696D">>,
       <<"u8B1B", "u7FA9">>,
       <<"u8A66", "u9A13">>,
       <<"u7814", "u7A76">>,
       <<"u8AD6", "u6587">>,
       <<"u5B66", "u751F">>,
       <<"u6559", "u80B2">>,
       <<"u52C9", "u5F37">>,
       <<"u8CC7", "u683C">>,
       <<"u5927", "u5B66">>,
       <<"u5B66", "u6821">>
     >>],
    \* '健康・医療': 健康, 医療, 病気, 治療, ダイエット, フィットネス, 栄養, 予防, 薬, 医師
    [key |-> <<"u5065", "u5EB7", "u30FB", "u533B", "u7642">>,
     keywords |-> <<
       <<"u5065", "u5EB7">>,
       <<"u533B", "u7642">>,
       <<"u75C5", "u6C17">>,
       <<"u6CBB", "u7642">>,
       <<"u30C0", "u30A4", "u30A8", "u30C3", "u30C8">>,
       <<"u30D5", "u30A3", "u30C3", "u30C8", "u30CD", "u30B9">>,
       <<"u6804", "u990A">>,
       <<"u4E88", "u9632">>,
       <<"u85AC">>,
       <<"u533B", "u5E2B">>
     >>],
    \* '日常・ライフスタイル': 家族, 友人, 買い物, 生活, 趣味, ファッション, 美容, インテリア, 日常, ライフスタイル
    [key |-> <<"u65E5", "u5E38", "u30FB", "u30E9", "u30A4", "u30D5", "u30B9", "u30BF", "u30A4", "u30EB">>,
     keywords |-> <<
       <<"u5BB6", "u65CF">>,
       <<"u53CB", "u4EBA">>,
       <<"u8CB7", "u3044", "u7269">>,
       <<"u751F", "u6D3B">>,
       <<"u8DA3", "u5473">>,
       <<"u30D5", "u30A1", "u30C3", "u30B7", "u30E7", "u30F3">>,
       <<"u7F8E", "u5BB9">>,
       <<"u30A4", "u30F3", "u30C6", "u30EA", "u30A2">>,
       <<"u65E5", "u5E38">>,
       <<"u30E9", "u30A4", "u30D5", "u30B9", "u30BF", "u30A4", "u30EB">>
     >>],
    \* '旅行・観光': 旅行, 観光, ホテル, 観光地, 海外, 国内旅行, 温泉, リゾート
    [key |-> <<"u65C5", "u884C", "u30FB", "u89B3", "u5149">>,
     keywords |-> <<
       <<"u65C5", "u884C">>,
       <<"u89B3", "u5149">>,
       <<"u30DB", "u30C6", "u30EB">>,
       <<"u89B3", "u5149", "u5730">>,
       <<"u6D77", "u5916">>,
       <<"u56FD", "u5185", "u65C5", "u884C">>,
       <<"u6E29", "u6CC9">>,
       <<"u30EA", "u30BE", "u30FC", "u30C8">>
     >>],
    \* '音楽・アート': 音楽, アート, 芸術, 楽器, 絵画, デザイン, クリエイティブ
    [key |-> <<"u97F3", "u697D", "u30FB", "u30A2", "u30FC", "u30C8">>,
     keywords |-> <<
       <<"u97F3", "u697D">>,
       <<"u30A2", "u30FC", "u30C8">>,
       <<"u82B8", "u8853">>,
       <<"u697D", "u5668">>,
       <<"u7D75", "u753B">>,
       <<"u30C7", "u30B6", "u30A4", "u30F3">>,
       <<"u30AF", "u30EA", "u30A8", "u30A4", "u30C6", "u30A3", "u30D6">>
     >>],
    \* 'ゲーム': ビデオゲーム, ゲーム実況, eスポーツ, ゲーム開発, プレイ
    [key |-> <<"u30B2", "u30FC", "u30E0">>,
     keywords |-> <<
       <<"u30D3", "u30C7", "u30AA", "u30B2", "u30FC", "u30E0">>,
       <<"u30B2", "u30FC", "u30E0", "u5B9F", "u6CC1">>,
       <<"e", "u30B9", "u30DD", "u30FC", "u30C4">>,
       <<"u30B2", "u30FC", "u30E0", "u958B", "u767A">>,
       <<"u30D7", "u30EC", "u30A4">>
     >>],
    \* '科学・研究': 科学, 研究, 実験, 理論, 発見, 学術論文, 技術革新
    [key |-> <<"u79D1", "u5B66", "u30FB", "u7814", "u7A76">>,
     keywords |-> <<
       <<"u79D1", "u5B66">>,
       <<"u7814", "u7A76">>,
       <<"u5B9F", "u9A13">>,
       <<"u7406", "u8AD6">>,
       <<"u767A", "u898B">>,
       <<"u5B66", "u8853", "u8AD6", "u6587">>,
       <<"u6280", "u8853", "u9769", "u65B0">>
     >>]
  >>

\* ---------------------------------------------------------------------------
\* Dictionaries: a Python dict is a sequence of entries in insertion order
\* ---------------------------------------------------------------------------

HasKey(d, k) == \E i \in 1..Len(d) : d[i].key = k

IndexOf(d, k) == CHOOSE i \in 1..Len(d) : d[i].key = k

Lookup(d, k) == d[IndexOf(d, k)]

\* ---------------------------------------------------------------------------
\* State
\* ---------------------------------------------------------------------------

VARIABLES
  learned_corrections,       \* dict original -> corrected (in memory)
  confidence_patterns,       \* dict token -> avg_confidence, count, first_seen
  learned_corrections_file,  \* content of learned_corrections.json
  confidence_patterns_file,  \* content of confidence_patterns.json
  processing_stats,          \* the process-wide counters
  database,                  \* the ordered record collection (in memory)
  db_file,                   \* content of the record index file
  sentence_model,            \* "None" until the embedding model is loaded
  now,                       \* the clock read by time.time() / datetime.now()
  batch,                     \* position of batch_process_folder's loop
  observed,                  \* per token: the confidences learn_from_correction saw
  issued,                    \* every id add_to_database gave out, in order
  call,                      \* the operation that ran last: arguments, oracle
                             \* answers and what it returned
  before                     \* the stores and counters when that operation began

vars ==
  <<learned_corrections, confidence_patterns, learned_corrections_file,
    confidence_patterns_file, processing_stats, database, db_file,
    sentence_model, now, batch, observed, issued, call, before>>

pattern_vars ==
  <<learned_corrections, confidence_patterns, learned_corrections_file,
    confidence_patterns_file>>

store_vars == <<database, db_file, sentence_model, issued>>

\* The stores and counters as an operation finds them.
Snapshot ==
  [learned_corrections |-> learned_corrections,
   confidence_patterns |-> confidence_patterns,
   learned_corrections_file |-> learned_corrections_file,
   confidence_patterns_file |-> confidence_patterns_file,
   processing_stats |-> processing_stats,
   database |-> database,
   db_file |-> db_file,
   sentence_model |-> sentence_model]

\* A file that open(..., 'w') truncated and json.dump did not finish writing.
Partial == "partial"

\* Outcomes of writing a file: written, open() raised (file untouched),
\* or the write raised after open() had truncated the file.
IoOutcomes == {"ok", "open_error", "write_error"}

\* What a with open(path, 'w') ... json.dump(value, f) leaves in the file.
WriteFile(old, value, io) ==
  CASE io = "ok" -> value
    [] io = "open_error" -> old
    [] io = "write_error" -> Partial

\* ---------------------------------------------------------------------------
\* Pattern files: json.dump(..., ensure_ascii=False, indent=2) and json.load
\* ---------------------------------------------------------------------------

\* A character inside a JSON string: the quote, the backslash and the control
\* characters are escaped, every other character is written as it is.
JsonEscapeChar(c) ==
  CASE c = "\"" -> <<"\\", "\"">>
    [] c = "\\" -> <<"\\", "\\">>
    [] c = "\n" -> <<"\\", "n">>
    [] c = "\t" -> <<"\\", "t">>
    [] c = "\r" -> <<"\\", "r">>
    [] OTHER -> <<c>>

\* The characters between the quotes of the JSON string written for s.
RECURSIVE JsonString(_)
JsonString(s) ==
  IF s = <<>> THEN <<>> ELSE JsonEscapeChar(Head(s)) \o JsonString(Tail(s))

\* The character an escape sequence \c stands for.
JsonEscaped(c) ==
  CASE c = "n" -> "\n"
    [] c = "t" -> "\t"
    [] c = "r" -> "\r"
    [] OTHER -> c

\* The string a JSON string reads back as, from t[i] on.
RECURSIVE JsonUnescapeFrom(_, _)
JsonUnescapeFrom(t, i) ==
  IF i > Len(t) THEN <<>>
  ELSE IF t[i] = "\\" /\ i < Len(t)
       THEN <<JsonEscaped(t[i + 1])>> \o JsonUnescapeFrom(t, i + 2)
       ELSE <<t[i]>> \o JsonUnescapeFrom(t, i + 1)

JsonUnescape(t) == JsonUnescapeFrom(t, 1)

\* json.dump of learned_corrections: one member per key, in dict order.
RECURSIVE DumpCorrections(_, _)
DumpCorrections(d, i) ==
  IF i > Len(d) THEN <<>>
  ELSE <<[name |-> JsonString(d[i].key), value |-> JsonString(d[i].val)]>>
       \o DumpCorrections(d, i + 1)

\* json.dump of confidence_patterns. The numbers are written by repr, which
\* reads back as the same number, and first_seen is a string of digits and
\* punctuation, so the three fields are kept as they are.
RECURSIVE DumpConfidence(_, _)
DumpConfidence(d, i) ==
  IF i > Len(d) THEN <<>>
  ELSE <<[name |-> JsonString(d[i].key),
          value |-> [avg_confidence |-> d[i].avg_confidence,
                     count |-> d[i].count,
                     first_seen |-> d[i].first_seen]]>>
       \o DumpConfidence(d, i + 1)

\* A variant that reads the members of an object last to first.
RECURSIVE LoadCorrections_Reversed(_, _, _)
LoadCorrections_Reversed(doc, i, d) ==
  IF i > Len(doc) THEN d
  ELSE LoadCorrections_Reversed(
         doc, i + 1,
         <<[key |-> JsonUnescape(doc[i].name),
            val |-> JsonUnescape(doc[i].value)]>> \o d)

\* json.load of a learned-corrections document from member i on, into the
\* dict d: a name met again replaces the value and keeps the first position.
RECURSIVE LoadCorrections(_, _, _)
LoadCorrections(doc, i, d) ==
  IF i > Len(doc) THEN d
  ELSE LET key == JsonUnescape(doc[i].name)
           val == JsonUnescape(doc[i].value)
       IN  LoadCorrections(
             doc, i + 1,
             IF HasKey(d, key)
             THEN [d EXCEPT ![IndexOf(d, key)].val = val]
             ELSE Append(d, [key |-> key, val |-> val]))

\* json.load of a confidence-patterns document, likewise.
RECURSIVE LoadConfidence(_, _, _)
LoadConfidence(doc, i, d) ==
  IF i > Len(doc) THEN d
  ELSE LET key == JsonUnescape(doc[i].name)
           entry == [key |-> key,
                     avg_confidence |-> doc[i].value.avg_confidence,
                     count |-> doc[i].value.count,
                     first_seen |-> doc[i].value.first_seen]
       IN  LoadConfidence(
             doc, i + 1,
             IF HasKey(d, key)
             THEN [d EXCEPT ![IndexOf(d, key)] = entry]
             ELSE Append(d, entry))

\* save_learned_corrections on the file content old; io is the outcome of
\* the write.
save_learned_corrections(old, d, io) ==
  WriteFile(old, DumpCorrections(d, 1), io)

\* save_confidence_patterns, likewise.
save_confidence_patterns(old, d, io) ==
  WriteFile(old, DumpConfidence(d, 1), io)

\* load_learned_corrections: the dict read from the file; the empty dict
\* when the file is absent (a file never written reads like one holding {})
\* or when json.load raises.
\* A variant that keeps the map in memory when the file cannot be parsed.
LoadLearnedCorrections_KeepMemory(file) ==
  IF file = Partial THEN learned_corrections ELSE LoadCorrections(file, 1, <<>>)

load_learned_corrections(file) ==
  IF file = Partial THEN <<>> ELSE LoadCorrections(file, 1, <<>>)

\* load_confidence_patterns, likewise.
load_confidence_patterns(file) ==
  IF file = Partial THEN <<>> ELSE LoadConfidence(file, 1, <<>>)

\* ---------------------------------------------------------------------------
\* Pattern store: learn_from_correction, apply_learned_patterns
\* ---------------------------------------------------------------------------

Min(a, b) == IF a <= b THEN a ELSE b

Max(a, b) == IF a >= b THEN a ELSE b

\* A variant that assigns the corrected token also when the key is known.
RECURSIVE LearnWords_Overwriting(_, _, _, _)
LearnWords_Overwriting(lc, ow, cw, i) ==
  IF i > Min(Len(ow), Len(cw)) THEN lc
  ELSE IF ow[i] # cw[i] /\ Len(ow[i]) > 2 /\ Len(cw[i]) > 2
       THEN IF HasKey(lc, ow[i])
            THEN LearnWords_Overwriting(
                   [lc EXCEPT ![IndexOf(lc, ow[i])].val = cw[i]], ow, cw, i + 1)
            ELSE LearnWords_Overwriting(
                   Append(lc, [key |-> ow[i], val |-> cw[i]]), ow, cw, i + 1)
       ELSE LearnWords_Overwriting(lc, ow, cw, i + 1)

\* The loop over zip(original_words, corrected_words): a differing pair of
\* tokens, both longer than 2, whose original is not yet a key, is appended.
RECURSIVE LearnWords(_, _, _, _)
LearnWords(lc, ow, cw, i) ==
  IF i > Min(Len(ow), Len(cw)) THEN lc
  ELSE IF /\ ow[i] # cw[i] /\ Len(ow[i]) > 2 /\ Len(cw[i]) > 2
          /\ ~HasKey(lc, ow[i])
       THEN LearnWords(Append(lc, [key |-> ow[i], val |-> cw[i]]), ow, cw, i + 1)
       ELSE LearnWords(lc, ow, cw, i + 1)

\* (avg + confidence) / 2 on exact fractions <<numerator, denominator>>.
HalfSum(avg, confidence) == <<avg[1] + confidence * avg[2], 2 * avg[2]>>

\* A variant that keeps the arithmetic mean of all observations.
ObserveWord_Mean(cp, w, t) ==
  LET word == Strip(w.word) IN
  IF HasKey(cp, word)
  THEN LET k == IndexOf(cp, word) IN
       [cp EXCEPT ![k].count = @ + 1,
                  ![k].avg_confidence =
                     <<@[1] * cp[k].count + w.confidence * @[2],
                       @[2] * (cp[k].count + 1)>>]
  ELSE Append(cp, [key |-> word, avg_confidence |-> <<w.confidence, 1>>,
                   count |-> 1, first_seen |-> t])

\* One pass of the loop body over low_confidence_words: a known token gets
\* count + 1 and the halved sum, a new token is recorded with count 1.
ObserveWord(cp, w, t) ==
  LET word == Strip(w.word) IN
  IF HasKey(cp, word)
  THEN LET k == IndexOf(cp, word) IN
       [cp EXCEPT ![k].count = @ + 1,
                  ![k].avg_confidence = HalfSum(@, w.confidence)]
  ELSE Append(cp, [key |-> word, avg_confidence |-> <<w.confidence, 1>>,
                   count |-> 1, first_seen |-> t])

RECURSIVE LearnConfidence(_, _, _, _)
LearnConfidence(cp, words, i, t) ==
  IF i > Len(words) THEN cp
  ELSE LearnConfidence(ObserveWord(cp, words[i], t), words, i + 1, t)

\* The history of observations: per token, the confidence of each pass of
\* the loop over low_confidence_words and the time it was made.
RECURSIVE Observe(_, _, _, _)
Observe(obs, words, i, t) ==
  IF i > Len(words) THEN obs
  ELSE LET word == Strip(words[i].word)
           seen == IF word \in DOMAIN obs THEN obs[word] ELSE <<>>
           upd == [x \in DOMAIN obs \cup {word} |->
                     IF x = word
                     THEN Append(seen, [confidence |-> words[i].confidence,
                                        at |-> t])
                     ELSE obs[x]]
       IN  Observe(upd, words, i + 1, t)

\* learn_from_correction: the pattern store after the call, and whether the
\* call raised. io1 and io2 are the outcomes of the two file writes.
learn_from_correction(original_text, corrected_text, low_confidence_words, io1, io2) ==
  LET lc == LearnWords(learned_corrections, Split(original_text),
                       Split(corrected_text), 1)
      cp == LearnConfidence(confidence_patterns, low_confidence_words, 1, now)
      learning_count == (Len(lc) - Len(learned_corrections))
                        + (Len(cp) - Len(confidence_patterns))
      saving == learning_count > 0
      saved1 == saving /\ io1 = "ok"
      saved2 == saved1 /\ io2 = "ok"
  IN  [learned_corrections |-> lc,
       confidence_patterns |-> cp,
       learned_corrections_file |->
         IF saving THEN save_learned_corrections(learned_corrections_file, lc, io1)
         ELSE learned_corrections_file,
       confidence_patterns_file |->
         IF saved1 THEN save_confidence_patterns(confidence_patterns_file, cp, io2)
         ELSE confidence_patterns_file,
       learned_patterns |-> IF saved2 THEN learning_count ELSE 0,
       observed |-> Observe(observed, low_confidence_words, 1, now),
       saving |-> saving,
       raised |-> saving /\ ~saved2]

\* apply_learned_patterns: each learned correction, in insertion order,
\* replaces every occurrence of its key in the text built so far.
RECURSIVE ApplyPatterns(_, _, _)
ApplyPatterns(d, text, i) ==
  IF i > Len(d) THEN text
  ELSE ApplyPatterns(d, IF Contains(text, d[i].key)
                        THEN Replace(text, d[i].key, d[i].val)
                        ELSE text, i + 1)

\* A variant that applies the built-in dictionary as well.
ApplyLearnedPatterns_WithDictionary(text) ==
  ApplyPatterns(whisper_patterns \o learned_corrections, text, 1)

apply_learned_patterns(text) == ApplyPatterns(learned_corrections, text, 1)

\* The loop over whisper_patterns.items(): an unconditional str.replace each.
RECURSIVE ApplyDictionary(_, _, _)
ApplyDictionary(d, text, i) ==
  IF i > Len(d) THEN text
  ELSE ApplyDictionary(d, Replace(text, d[i].key, d[i].val), i + 1)

\* A variant that applies the built-in dictionary alone.
ApplyWhisperPatterns_StaticOnly(text) ==
  ApplyDictionary(whisper_patterns, text, 1)

\* A variant that applies the learned corrections before the dictionary.
ApplyWhisperPatterns_LearnedFirst(text) ==
  ApplyDictionary(whisper_patterns, apply_learned_patterns(text), 1)

\* _apply_whisper_patterns: the built-in dictionary, then the learned one.
_apply_whisper_patterns(text) ==
  apply_learned_patterns(ApplyDictionary(whisper_patterns, text, 1))

\* ---------------------------------------------------------------------------
\* Correction pipeline: _call_claude_api, transcribe_with_claude_correction
\* ---------------------------------------------------------------------------

\* max_retries, the default of _call_claude_api
max_retries == 3

RECURSIVE Pow2(_)
Pow2(n) == IF n = 0 THEN 1 ELSE 2 * Pow2(n - 1)

\* The for-loop of _call_claude_api from `attempt` on. responses[a + 1] is what
\* requests.post gives on attempt a:
\*   "ok"         status 200 whose body holds content[0].text
\*   "malformed"  status 200 whose body lacks content[0].text
\*   "rate_limit" status 429
\*   "http_error" any other status
\*   "exception"  requests.exceptions.RequestException (timeout, connection)
\* The result says what the call returned ("text", "none") or that it raised,
\* how many requests it sent and the waits it slept, in order.
RECURSIVE ClaudeAttempts(_, _, _)
ClaudeAttempts(responses, attempt, sleeps) ==
  IF attempt >= max_retries
  THEN [kind |-> "none", text |-> <<>>, requests |-> attempt, sleeps |-> sleeps]
  ELSE LET r == responses[attempt + 1] IN
       CASE r.kind = "ok" ->
              [kind |-> "text", text |-> Strip(r.text),
               requests |-> attempt + 1, sleeps |-> sleeps]
         [] r.kind = "malformed" ->
              [kind |-> "raise", text |-> <<>>,
               requests |-> attempt + 1, sleeps |-> sleeps]
         [] r.kind = "rate_limit" ->
              ClaudeAttempts(responses, attempt + 1,
                             Append(sleeps, Pow2(attempt)))
         [] r.kind = "http_error" ->
              ClaudeAttempts(responses, attempt + 1, sleeps)
         [] r.kind = "exception" ->
              ClaudeAttempts(responses, attempt + 1,
                             IF attempt < max_retries - 1
                             THEN Append(sleeps, Pow2(attempt))
                             ELSE sleeps)

\* A variant that gives up after the first request.
CallClaudeApi_SingleAttempt(responses) ==
  IF responses[1].kind = "ok"
  THEN [kind |-> "text", text |-> Strip(responses[1].text), requests |-> 1,
        sleeps |-> <<>>]
  ELSE [kind |-> "none", text |-> <<>>, requests |-> 1, sleeps |-> <<>>]

_call_claude_api(responses) == ClaudeAttempts(responses, 0, <<>>)

\* _calculate_cost in millionths of a dollar:
\* (len/1.5/1e6)*3.00 + (len/1.5/1e6)*15.00 = (2*len + 10*len) / 1e6
_calculate_cost(original, corrected) == 2 * Len(original) + 10 * Len(corrected)

\* [w for w in word_data if w['confidence'] < 0.5], confidences in percent
LowConfidenceWords(word_data) ==
  SelectSeq(word_data, LAMBDA w : w.confidence < 50)

\* The prompt handed to the rewrite oracle: the pattern-corrected text and,
\* when the recognition gave word probabilities, the number of low-confidence
\* words and the first ten of them.
_create_claude_prompt(text, word_data) ==
  LET low == LowConfidenceWords(word_data) IN
  [text |-> text,
   low_count |-> Len(low),
   attention |-> [i \in 1..Min(Len(low), 10) |-> low[i].word]]

\* transcribe_with_claude_correction when whisper.load_model or
\* model.transcribe raises: the except branch, then the finally clause.
TranscribeFailed(dt) ==
  [result |->
     [success |-> FALSE, original_transcript |-> <<>>,
      corrected_transcript |-> <<>>, claude_applied |-> FALSE, cost |-> 0,
      processing_time |-> dt, word_level_data |-> <<>>, error |-> TRUE],
   api |-> [kind |-> "skipped", text |-> <<>>, requests |-> 0,
            sleeps |-> <<>>],
   prompt |-> [text |-> <<>>, low_count |-> 0, attention |-> <<>>],
   learned |-> FALSE,
   saving |-> FALSE,
   storage_failed |-> FALSE,
   learned_corrections |-> learned_corrections,
   confidence_patterns |-> confidence_patterns,
   learned_corrections_file |-> learned_corrections_file,
   confidence_patterns_file |-> confidence_patterns_file,
   observed |-> observed,
   processing_stats |->
     [processing_stats EXCEPT !.processing_time = @ + dt]]

\* A variant that counts a correction when the oracle gave no text.
TranscribeUncorrected_Counted(whisper, pattern_corrected, api, dt) ==
  LET raised == api.kind = "raise" IN
  [result |->
     [success |-> ~raised, original_transcript |-> whisper.text,
      corrected_transcript |-> IF raised THEN <<>> ELSE pattern_corrected,
      claude_applied |-> FALSE, cost |-> 0, processing_time |-> dt,
      word_level_data |-> whisper.words, error |-> raised],
   api |-> api,
   prompt |-> _create_claude_prompt(pattern_corrected, whisper.words),
   learned |-> FALSE,
   saving |-> FALSE,
   storage_failed |-> FALSE,
   learned_corrections |-> learned_corrections,
   confidence_patterns |-> confidence_patterns,
   learned_corrections_file |-> learned_corrections_file,
   confidence_patterns_file |-> confidence_patterns_file,
   observed |-> observed,
   processing_stats |->
     [processing_stats EXCEPT
        !.successful_transcriptions = @ + (IF raised THEN 0 ELSE 1),
        !.claude_corrections = @ + (IF raised THEN 0 ELSE 1),
        !.processing_time = @ + dt]]

\* transcribe_with_claude_correction past the oracle call when the oracle
\* gave no text to use: it raised (the except branch), or it returned None
\* or a blank text and the pattern-corrected text is final.
TranscribeUncorrected(whisper, pattern_corrected, api, dt) ==
  LET raised == api.kind = "raise" IN
  [result |->
     [success |-> ~raised, original_transcript |-> whisper.text,
      corrected_transcript |-> IF raised THEN <<>> ELSE pattern_corrected,
      claude_applied |-> FALSE, cost |-> 0, processing_time |-> dt,
      word_level_data |-> whisper.words, error |-> raised],
   api |-> api,
   prompt |-> _create_claude_prompt(pattern_corrected, whisper.words),
   learned |-> FALSE,
   saving |-> FALSE,
   storage_failed |-> FALSE,
   learned_corrections |-> learned_corrections,
   confidence_patterns |-> confidence_patterns,
   learned_corrections_file |-> learned_corrections_file,
   confidence_patterns_file |-> confidence_patterns_file,
   observed |-> observed,
   processing_stats |->
     [processing_stats EXCEPT
        !.successful_transcriptions = @ + (IF raised THEN 0 ELSE 1),
        !.processing_time = @ + dt]]

\* A variant that counts the correction before learning from it.
TranscribeLearned_CountedFirst(whisper, pattern_corrected, api, learn, dt) ==
  LET cost == _calculate_cost(whisper.text, api.text) IN
  [result |->
     [success |-> ~learn.raised, original_transcript |-> whisper.text,
      corrected_transcript |-> api.text, claude_applied |-> TRUE,
      cost |-> cost, processing_time |-> dt,
      word_level_data |-> whisper.words, error |-> learn.raised],
   api |-> api,
   prompt |-> _create_claude_prompt(pattern_corrected, whisper.words),
   learned |-> TRUE,
   saving |-> learn.saving,
   storage_failed |-> learn.raised,
   learned_corrections |-> learn.learned_corrections,
   confidence_patterns |-> learn.confidence_patterns,
   learned_corrections_file |-> learn.learned_corrections_file,
   confidence_patterns_file |-> learn.confidence_patterns_file,
   observed |-> learn.observed,
   processing_stats |->
     [processing_stats EXCEPT
        !.learned_patterns = @ + learn.learned_patterns,
        !.claude_corrections = @ + 1,
        !.total_cost = @ + cost,
        !.successful_transcriptions = @ + (IF learn.raised THEN 0 ELSE 1),
        !.processing_time = @ + dt]]

\* transcribe_with_claude_correction past learn_from_correction, which ran
\* on the oracle's text: if it raised, the except branch; else the
\* correction is counted and costed.
TranscribeLearned(whisper, pattern_corrected, api, learn, dt) ==
  LET cost == _calculate_cost(whisper.text, api.text) IN
  [result |->
     [success |-> ~learn.raised, original_transcript |-> whisper.text,
      corrected_transcript |-> api.text, claude_applied |-> TRUE,
      cost |-> cost, processing_time |-> dt,
      word_level_data |-> whisper.words, error |-> learn.raised],
   api |-> api,
   prompt |-> _create_claude_prompt(pattern_corrected, whisper.words),
   learned |-> TRUE,
   saving |-> learn.saving,
   storage_failed |-> learn.raised,
   learned_corrections |-> learn.learned_corrections,
   confidence_patterns |-> learn.confidence_patterns,
   learned_corrections_file |-> learn.learned_corrections_file,
   confidence_patterns_file |-> learn.confidence_patterns_file,
   observed |-> learn.observed,
   processing_stats |->
     [processing_stats EXCEPT
        !.learned_patterns = @ + learn.learned_patterns,
        !.claude_corrections = @ + (IF learn.raised THEN 0 ELSE 1),
        !.total_cost = @ + (IF learn.raised THEN 0 ELSE cost),
        !.successful_transcriptions = @ + (IF learn.raised THEN 0 ELSE 1),
        !.processing_time = @ + dt]]

\* transcribe_with_claude_correction past the oracle call: `if
\* claude_corrected:` decides whether the oracle's text is learned from.
TranscribeCorrected(whisper, pattern_corrected, api, io1, io2, dt) ==
  IF api.kind = "text" /\ api.text # <<>>
  THEN CHOOSE t \in
         {TranscribeLearned(whisper, pattern_corrected, api, learn, dt) :
            learn \in {learn_from_correction(whisper.text, api.text,
                                             whisper.words, io1, io2)}} : TRUE
  ELSE TranscribeUncorrected(whisper, pattern_corrected, api, dt)

\* transcribe_with_claude_correction. whisper is the recognition ("failed" when
\* whisper.load_model or model.transcribe raises, else its text and word list),
\* responses the rewrite oracle's answers, io1 and io2 the outcomes of the two
\* pattern-file writes, dt the elapsed time. The value holds the returned
\* result and the state the call leaves.
transcribe_with_claude_correction(whisper, responses, io1, io2, dt) ==
  IF whisper.kind = "failed" THEN TranscribeFailed(dt)
  ELSE CHOOSE t \in
         {TranscribeCorrected(whisper, pattern_corrected, api, io1, io2, dt) :
            pattern_corrected \in
              {_apply_whisper_patterns(_clean_text_basic(whisper.text))},
            api \in {_call_claude_api(responses)}} : TRUE

\* ---------------------------------------------------------------------------
\* Category classifier: classify_text, _classify_with_claude_api
\* ---------------------------------------------------------------------------

\* 'その他', the category of a text no keyword occurs in
Other == <<"u305D", "u306E", "u4ED6">>

RECURSIVE SumCounts(_, _, _)
SumCounts(text_lower, keywords, i) ==
  IF i > Len(keywords) THEN 0
  ELSE Count(text_lower, Lower(keywords[i]))
       + SumCounts(text_lower, keywords, i + 1)

\* The loop over category_keywords.items() from the i-th category on: the
\* scores in declaration order.
RECURSIVE ScoresFrom(_, _)
ScoresFrom(text_lower, i) ==
  IF i > Len(category_keywords) THEN <<>>
  ELSE <<SumCounts(text_lower, category_keywords[i].keywords, 1)>>
       \o ScoresFrom(text_lower, i + 1)

\* category_scores: per category, in declaration order, the number of
\* occurrences of its keywords in the lower-cased text.
CategoryScores(text) ==
  CHOOSE scores \in {ScoresFrom(text_lower, 1) :
                       text_lower \in {Lower(text)}} : TRUE

\* A variant that takes the last category with the greatest score.
ArgMaxFirst_Last(scores) ==
  CHOOSE i \in 1..Len(scores) :
    /\ \A j \in 1..Len(scores) : scores[j] <= scores[i]
    /\ \A j \in (i + 1)..Len(scores) : scores[j] < scores[i]

\* max(category_scores, key=category_scores.get): the first category, in
\* declaration order, that has the greatest score.
ArgMaxFirst(scores) ==
  CHOOSE i \in 1..Len(scores) :
    /\ \A j \in 1..Len(scores) : scores[j] <= scores[i]
    /\ \A j \in 1..(i - 1) : scores[j] < scores[i]

\* A variant that gives no category when no keyword occurs.
FallbackCategory_Undecided(scores) ==
  IF \E i \in 1..Len(scores) : scores[i] > 0
  THEN category_keywords[ArgMaxFirst(scores)].key
  ELSE <<>>

\* max(...) if max(category_scores.values()) > 0 else "その他"
FallbackCategory(scores) ==
  IF \E i \in 1..Len(scores) : scores[i] > 0
  THEN category_keywords[ArgMaxFirst(scores)].key
  ELSE Other

\* fallback_category of classify_text; VoiceRAGSystem.classify_text returns it.
KeywordCategory(text) ==
  CHOOSE category \in {FallbackCategory(scores) :
                         scores \in {CategoryScores(text)}} : TRUE

\* _calculate_classification_cost in millionths of a dollar:
\* ((len(text[:500]) + 200)/1.5/1e6)*3.00 + (10/1.5/1e6)*15.00
_calculate_classification_cost(text) == 2 * (Min(Len(text), 500) + 200) + 100

\* A variant that counts and costs every 200 response.
ClassifyWithClaude_AlwaysCounted(stats, text, response) ==
  LET category == Strip(response.text)
      valid == response.kind = "ok" /\ HasKey(category_folders, category)
  IN  [category |-> IF valid THEN category ELSE <<>>,
       processing_stats |->
         IF response.kind = "ok"
         THEN [stats EXCEPT
                 !.classification_cost = @ + _calculate_classification_cost(text),
                 !.claude_classifications = @ + 1]
         ELSE stats]

\* A variant that accepts every label of a 200 response.
ClassifyWithClaude_Unchecked(stats, text, response) ==
  LET category == Strip(response.text)
      valid == response.kind = "ok"
  IN  [category |-> IF valid THEN category ELSE <<>>,
       processing_stats |->
         IF valid
         THEN [stats EXCEPT
                 !.classification_cost = @ + _calculate_classification_cost(text),
                 !.claude_classifications = @ + 1]
         ELSE stats]

\* _classify_with_claude_api. response is what the single request gives: the
\* kinds of the rewrite oracle's responses, "ok" carrying the label text.
\* stats are the counters when it is called. The value is the returned
\* category (<<>> for None) and the counters it leaves.
_classify_with_claude_api(stats, text, response) ==
  LET category == Strip(response.text)
      valid == response.kind = "ok" /\ HasKey(category_folders, category)
  IN  [category |-> IF valid THEN category ELSE <<>>,
       processing_stats |->
         IF valid
         THEN [stats EXCEPT
                 !.classification_cost = @ + _calculate_classification_cost(text),
                 !.claude_classifications = @ + 1]
         ELSE stats]

\* A variant in which a keyword hit wins over the oracle.
ClassifyText_KeywordFirst(stats, text, response) ==
  LET fallback_category == KeywordCategory(text)
      claude == _classify_with_claude_api(stats, text, response)
  IN  [category |-> IF claude.category # <<>> /\ fallback_category = Other
                    THEN claude.category
                    ELSE fallback_category,
       fallback_category |-> fallback_category,
       processing_stats |-> claude.processing_stats]

\* classify_text: the oracle's category when it returned one, else the
\* keyword category.
classify_text(stats, text, response) ==
  LET fallback_category == KeywordCategory(text)
      claude == _classify_with_claude_api(stats, text, response)
  IN  [category |-> IF claude.category # <<>> THEN claude.category
                    ELSE fallback_category,
       fallback_category |-> fallback_category,
       processing_stats |-> claude.processing_stats]

\* ---------------------------------------------------------------------------
\* Record store: add_to_database, search_similar
\* ---------------------------------------------------------------------------

\* The embedding oracle's answers: vectors of one fixed dimension. Their
\* Euclidean norms are whole numbers, so that every cosine is an exact fraction.
Vectors == {<<1, 0>>, <<0, 1>>, <<3, 4>>, <<-1, 0>>}

Dot(a, b) == a[1] * b[1] + a[2] * b[2]

Norm(a) == CHOOSE n \in 0..5 : n * n = Dot(a, a)

\* sklearn's cosine_similarity as a fraction <<numerator, denominator>> with a
\* positive denominator.
cosine_similarity(a, b) == <<Dot(a, b), Norm(a) * Norm(b)>>

\* x < y on fractions
FracLess(x, y) == x[1] * y[2] < y[1] * x[2]

\* x = y on fractions
FracEq(x, y) == x[1] * y[2] = y[1] * x[2]

\* A variant that puts an element before those of equal similarity.
InsertDesc_Unstable(sorted, x) ==
  LET ahead == {i \in 1..Len(sorted) :
                  FracLess(x.similarity, sorted[i].similarity)}
      n == IF ahead = {} THEN 0
           ELSE CHOOSE i \in ahead : \A j \in ahead : j <= i
  IN  SubSeq(sorted, 1, n) \o <<x>> \o SubSeq(sorted, n + 1, Len(sorted))

\* list.sort(key=lambda x: x[1], reverse=True) is stable: an element goes
\* after every element whose similarity is not smaller than its own.
InsertDesc(sorted, x) ==
  LET ahead == {i \in 1..Len(sorted) :
                   ~FracLess(sorted[i].similarity, x.similarity)}
      n == IF ahead = {} THEN 0
           ELSE CHOOSE i \in ahead : \A j \in ahead : j <= i
  IN  SubSeq(sorted, 1, n) \o <<x>> \o SubSeq(sorted, n + 1, Len(sorted))

RECURSIVE SortDesc(_, _, _)
SortDesc(s, i, acc) ==
  IF i > Len(s) THEN acc ELSE SortDesc(s, i + 1, InsertDesc(acc, s[i]))

\* A variant that keeps one element more.
SliceTo_OneMore(s, k) ==
  IF k >= 0 THEN SubSeq(s, 1, Min(k + 1, Len(s)))
  ELSE SubSeq(s, 1, Max(Len(s) + k, 0))

\* Python's s[:k]: the first k elements, or all but the last -k when k < 0.
SliceTo(s, k) ==
  IF k >= 0 THEN SubSeq(s, 1, Min(k, Len(s)))
  ELSE SubSeq(s, 1, Max(Len(s) + k, 0))

\* search_similar past its `if not self.database` guard. embed is the
\* embedding oracle's answer for the query ("ok" with the vector, "error"
\* when loading the model or encoding raises). The value holds the returned
\* (entry, similarity) list, whether the call raised, whether the oracle was
\* asked, and the model afterwards.
SearchStore(embed, top_k) ==
  IF embed.kind = "error"
  THEN [results |-> <<>>, raised |-> TRUE, encoded |-> TRUE,
        sentence_model |-> sentence_model]
  ELSE LET similarities ==
             [i \in 1..Len(database) |->
                [entry |-> database[i],
                 similarity |-> cosine_similarity(embed.vector,
                                                  database[i].embedding)]]
       IN  [results |-> SliceTo(SortDesc(similarities, 1, <<>>), top_k),
            raised |-> FALSE, encoded |-> TRUE,
            sentence_model |-> "loaded"]

\* A variant without the check for an empty collection.
SearchSimilar_Unguarded(embed, top_k) == SearchStore(embed, top_k)

\* search_similar: nothing is computed on an empty collection.
search_similar(embed, top_k) ==
  IF database = <<>>
  THEN [results |-> <<>>, raised |-> FALSE, encoded |-> FALSE,
        sentence_model |-> sentence_model]
  ELSE SearchStore(embed, top_k)

\* json.dump of word_level_data: the word of each entry is a JSON string.
DumpWords(words) ==
  [i \in 1..Len(words) |-> [words[i] EXCEPT !.word = JsonString(@)]]

LoadWords(words) ==
  [i \in 1..Len(words) |-> [words[i] EXCEPT !.word = JsonUnescape(@)]]

\* json.dump of one record: its texts are JSON strings; numbers, booleans,
\* the embedding and the names of files are kept as they are.
DumpRecord(entry) ==
  [entry EXCEPT
     !.original_transcript = JsonString(@),
     !.corrected_transcript = JsonString(@),
     !.category = JsonString(@),
     !.processing_info =
        [@ EXCEPT !.original_transcript = JsonString(@),
                  !.corrected_transcript = JsonString(@),
                  !.word_level_data = DumpWords(@)]]

\* json.load of one record.
LoadRecord(object) ==
  [object EXCEPT
     !.original_transcript = JsonUnescape(@),
     !.corrected_transcript = JsonUnescape(@),
     !.category = JsonUnescape(@),
     !.processing_info =
        [@ EXCEPT !.original_transcript = JsonUnescape(@),
                  !.corrected_transcript = JsonUnescape(@),
                  !.word_level_data = LoadWords(@)]]

\* json.dump of the collection: one object per record, in order.
RECURSIVE DumpDatabase(_, _)
DumpDatabase(db, i) ==
  IF i > Len(db) THEN <<>>
  ELSE <<DumpRecord(db[i])>> \o DumpDatabase(db, i + 1)

RECURSIVE LoadDatabase(_, _)
LoadDatabase(doc, i) ==
  IF i > Len(doc) THEN <<>>
  ELSE <<LoadRecord(doc[i])>> \o LoadDatabase(doc, i + 1)

\* A variant that writes the collection without its last record.
SaveDatabase_WithoutLast(old, db, io) ==
  WriteFile(old, DumpDatabase(SubSeq(db, 1, Len(db) - 1), 1), io)

\* save_database on the file content old; io is the outcome of the write.
save_database(old, db, io) == WriteFile(old, DumpDatabase(db, 1), io)

\* load_database: the list read from the index file; the empty list when
\* the file is absent (a file never written reads like one holding []) or
\* when json.load raises.
load_database(file) ==
  IF file = Partial THEN <<>> ELSE LoadDatabase(file, 1)

\* An entry without the optional 'saved_file_path' key.
NoPath == "absent"

\* save_transcript_to_file: the path it returns, None ("none"), or "raise".
\* file is what happens to the transcript file:
\*   "ok"           written and found afterwards
\*   "mkdir_error"  os.makedirs raises or the folder is missing afterwards;
\*                  the handler then reads `filename`, which is not bound yet
\*   "write_error"  open() or a write raises
\*   "missing"      the file is not found after the write
save_transcript_to_file(file) ==
  CASE file = "ok" -> "path"
    [] file = "mkdir_error" -> "raise"
    [] file = "write_error" -> "none"
    [] file = "missing" -> "none"

FileOutcomes == {"ok", "mkdir_error", "write_error", "missing"}

\* add_to_database on the collection db with index file content dbf, at
\* time t. embed is the embedding oracle's answer, io1 and io2 the outcomes
\* of the two save_database writes, file the outcome of the transcript file.
add_to_database(db, dbf, model, t, source_type, source_path, title, original_transcript, corrected_transcript, category, processing_info, embed, io1, file, io2) ==
  IF embed.kind = "error"
  THEN [database |-> db, db_file |-> dbf, sentence_model |-> model,
        raised |-> TRUE]
  ELSE LET entry ==
             [id |-> Len(db) + 1,
              source_type |-> source_type,
              source_path |-> source_path,
              title |-> title,
              original_transcript |-> original_transcript,
              corrected_transcript |-> corrected_transcript,
              category |-> category,
              embedding |-> embed.vector,
              created_at |-> t,
              processing_info |-> processing_info,
              word_count |-> Len(Split(corrected_transcript)),
              char_count |-> Len(corrected_transcript),
              saved_file_path |-> NoPath]
           db1 == Append(db, entry)
           dbf1 == save_database(dbf, db1, io1)
           saved_file == save_transcript_to_file(file)
           db2 == [db1 EXCEPT ![Len(db1)].saved_file_path = saved_file]
       IN  IF io1 # "ok"
           THEN [database |-> db1, db_file |-> dbf1,
                 sentence_model |-> "loaded", raised |-> TRUE]
           ELSE IF saved_file = "raise"
           THEN [database |-> db1, db_file |-> dbf1,
                 sentence_model |-> "loaded", raised |-> TRUE]
           ELSE IF saved_file = "none"
           THEN [database |-> db1, db_file |-> dbf1,
                 sentence_model |-> "loaded", raised |-> FALSE]
           ELSE [database |-> db2, db_file |-> save_database(dbf1, db2, io2),
                 sentence_model |-> "loaded", raised |-> io2 # "ok"]

\* process_audio_file that returns False before anything is stored: the
\* stores and counters are those transcribe_with_claude_correction left.
NotStored(pattern, stats, t, failure) ==
  [learned_corrections |-> pattern.learned_corrections,
   confidence_patterns |-> pattern.confidence_patterns,
   learned_corrections_file |-> pattern.learned_corrections_file,
   confidence_patterns_file |-> pattern.confidence_patterns_file,
   observed |-> pattern.observed,
   processing_stats |-> stats,
   database |-> database, db_file |-> db_file,
   sentence_model |-> sentence_model, now |-> t,
   returned |-> "false", failure |-> failure, category |-> <<>>]

\* process_audio_file past add_to_database: True, or the exception that
\* add_to_database raised.
Stored(item, t, c, a) ==
  [NotStored(t, c.processing_stats, now + 1, "none") EXCEPT
     !.database = a.database,
     !.db_file = a.db_file,
     !.sentence_model = a.sentence_model,
     !.now = IF item.embed.kind = "ok" THEN now + 2 ELSE now + 1,
     !.category = c.category,
     !.returned = IF a.raised THEN "raise" ELSE "true",
     !.failure =
        IF ~a.raised THEN "none"
        ELSE IF item.embed.kind = "error" THEN "embedding"
        ELSE IF item.dio1 # "ok" THEN "index_file"
        ELSE IF item.file = "mkdir_error" THEN "transcript_folder"
        ELSE "index_file"]

\* process_audio_file past classify_text.
Classified(item, t, c) ==
  CHOOSE p \in
    {Stored(item, t, c, a) :
       a \in {add_to_database(database, db_file, sentence_model, now + 1,
                              "file", item.path, item.path,
                              t.result.original_transcript,
                              t.result.corrected_transcript, c.category,
                              t.result, item.embed, item.dio1, item.file,
                              item.dio2)}} : TRUE

\* process_audio_file past transcribe_with_claude_correction.
Transcribed(item, t) ==
  IF ~t.result.success
  THEN NotStored(t, t.processing_stats, now + 1,
                 IF item.whisper.kind = "failed" THEN "recognition"
                 ELSE IF t.storage_failed THEN "pattern_files"
                 ELSE "rewrite_oracle")
  ELSE CHOOSE p \in
         {Classified(item, t, c) :
            c \in {classify_text(t.processing_stats,
                                 t.result.corrected_transcript,
                                 item.classify)}} : TRUE

\* process_audio_file on one item. item holds what the call meets: whether
\* the file exists, the recognition, the rewrite oracle's answers, the
\* outcomes of the pattern-file writes, the classification oracle's answer,
\* the embedding oracle's answer and the outcomes of the index-file and
\* transcript-file writes. returned is "true", "false" or "raise"; failure
\* names what went wrong.
process_audio_file(item) ==
  IF ~item.exists
  THEN NotStored([learned_corrections |-> learned_corrections,
                  confidence_patterns |-> confidence_patterns,
                  learned_corrections_file |-> learned_corrections_file,
                  confidence_patterns_file |-> confidence_patterns_file,
                  observed |-> observed],
                 processing_stats, now, "missing_file")
  ELSE CHOOSE p \in
         {Transcribed(item, t) :
            t \in {transcribe_with_claude_correction(
                     item.whisper, item.responses, item.pio1, item.pio2,
                     item.dt)}} : TRUE

\* ---------------------------------------------------------------------------
\* Inputs
\* ---------------------------------------------------------------------------

\* ' 石橋ロシ は 党主。。'
TextA == <<" ", "u77F3", "u6A4B", "u30ED", "u30B7", " ", "u306F", " ", "u515A", "u4E3B", "u3002", "u3002">>

\* 'こんちわ 党主 ==='
TextB == <<"u3053", "u3093", "u3061", "u308F", " ", "u515A", "u4E3B", " ", "=", "=", "=">>

\* '党主'
WordToushu == <<"u515A", "u4E3B">>

\* What whisper's model.transcribe gives: "failed" when it (or load_model)
\* raises, else the text and the words with their probabilities in percent.
RecognitionFailed == [kind |-> "failed", text |-> <<>>, words |-> <<>>]

RecognitionA ==
  [kind |-> "ok", text |-> TextA,
   words |-> <<[word |-> <<" ">> \o WordToushu, confidence |-> 30],
               [word |-> <<"u306F">>, confidence |-> 90]>>]

RecognitionB ==
  [kind |-> "ok", text |-> TextB,
   words |-> <<[word |-> WordToushu, confidence |-> 50]>>]

\* '自民党だよ 地民党だよ 石橋ロシ'
TextC ==
  <<"u81EA", "u6C11", "u515A", "u3060", "u3088", " ", "u5730", "u6C11", "u515A", "u3060", "u3088", " ", "u77F3", "u6A4B", "u30ED", "u30B7">>

RecognitionC == [kind |-> "ok", text |-> TextC, words |-> <<>>]

Recognitions == {RecognitionFailed, RecognitionA, RecognitionB, RecognitionC}

\* '石破茂 は 党首。'
OracleText1 == <<"u77F3", "u7834", "u8302", " ", "u306F", " ", "u515A", "u9996", "u3002">>

\* 'こんにちは 党首' and a line feed
OracleText2 == <<"u3053", "u3093", "u306B", "u3061", "u306F", " ", "u515A", "u9996", "\n">>

Ok(text) == [kind |-> "ok", text |-> text]

Malformed == [kind |-> "malformed", text |-> <<>>]

RateLimit == [kind |-> "rate_limit", text |-> <<>>]

HttpError == [kind |-> "http_error", text |-> <<>>]

RequestException == [kind |-> "exception", text |-> <<>>]

\* The rewrite oracle's answers to the requests of one _call_claude_api call:
\* text at once, text that is blank, a body without the text field, every
\* kind of failure until max_retries are spent, and text after failures.
ResponseRuns ==
  {<<Ok(OracleText1)>>,
   <<Ok(<<" ">>)>>,
   <<Malformed>>,
   <<RateLimit, RateLimit, RateLimit>>,
   <<HttpError, HttpError, HttpError>>,
   <<RequestException, RequestException, RequestException>>,
   <<RateLimit, Ok(OracleText2)>>,
   <<RequestException, HttpError, Malformed>>}

\* Elapsed seconds of one transcription.
Durations == {2}

\* The clock stops the exploration at MaxTime operations.
MaxTime == 2

\* The embedding oracle's answers: a vector, or a failure to load or encode.
Embedded(v) == [kind |-> "ok", vector |-> v]

EmbedError == [kind |-> "error", vector |-> <<>>]

\* The values of top_k tried, the default 3 among them.
TopKs == -2..4

\* The collection is explored up to MaxDb records.
MaxDb == 3

\* The word lists handed to learn_from_correction directly.
LearnWordLists ==
  {<<>>,
   <<[word |-> <<" ">> \o WordToushu, confidence |-> 30]>>,
   <<[word |-> WordToushu, confidence |-> 50],
     [word |-> WordToushu, confidence |-> 90]>>,
   <<[word |-> WordToushu, confidence |-> 50],
     [word |-> <<"u306F">>, confidence |-> 90]>>}

\* The (original, corrected) pairs handed to learn_from_correction directly.
\* 'say"hi"' and its correction 'say\\hi', tokens that JSON must escape
TextQuoted == <<"s", "a", "y", "\"", "h", "i", "\"">>

TextSlashed == <<"s", "a", "y", "\\", "h", "i">>

LearnTexts ==
  {<<TextB, OracleText2>>, <<TextB, TextB>>, <<TextQuoted, TextSlashed>>,
   <<TextB, OracleText1>>}

\* Texts handed to classify_text and labels the classification oracle gives.
\* 'AIの会議でAI'
ClassifyTextTech == <<"A", "I", "u306E", "u4F1A", "u8B70", "u3067", "A", "I">>

\* 'こんにちは'
ClassifyTextNone == <<"u3053", "u3093", "u306B", "u3061", "u306F">>

\* 'AIの会議'
ClassifyTextTie == <<"A", "I", "u306E", "u4F1A", "u8B70">>

\* '料理・グルメ'
LabelCooking == <<"u6599", "u7406", "u30FB", "u30B0", "u30EB", "u30E1">>

\* '技術・プログラミング'
LabelTech == <<"u6280", "u8853", "u30FB", "u30D7", "u30ED", "u30B0", "u30E9", "u30DF", "u30F3", "u30B0">>

\* ' 料理・グルメ\n'
LabelPadded == <<" ", "u6599", "u7406", "u30FB", "u30B0", "u30EB", "u30E1", "\n">>

\* '料理'
LabelPrefix == <<"u6599", "u7406">>

\* 'cooking'
LabelFolder == <<"c", "o", "o", "k", "i", "n", "g">>

\* ''
LabelEmpty == <<>>

\* 'ai会議Ai'
ClassifyTextMixed == <<"a", "i", "u4F1A", "u8B70", "A", "i">>

ClassifyTexts ==
  {ClassifyTextTech, ClassifyTextNone, ClassifyTextTie, ClassifyTextMixed}

\* What the single classification request gives: a 200 with a label (a
\* category, 'その他', a padded category, and labels that are no category),
\* a 200 without content[0].text, another status, or an exception.
ClassifyResponses ==
  {Ok(LabelCooking), Ok(LabelTech), Ok(Other), Ok(LabelPadded),
   Ok(LabelPrefix), Ok(LabelFolder), Ok(LabelEmpty),
   Malformed, HttpError, RequestException}

\* Classifications by the oracle are explored up to MaxClassified.
MaxClassified == 2

\* An audio file that exists, and what its processing meets.
Item(whisper, responses, pio1, classify, embed, dio1, file, dio2) ==
  [exists |-> TRUE, path |-> "a.mp3", whisper |-> whisper,
   responses |-> responses, pio1 |-> pio1, pio2 |-> "ok", dt |-> 2,
   classify |-> classify, embed |-> embed, dio1 |-> dio1, file |-> file,
   dio2 |-> dio2]

\* An item processed without any failure.
GoodItem ==
  Item(RecognitionB, <<Ok(OracleText2)>>, "ok", Ok(LabelCooking),
       Embedded(<<1, 0>>), "ok", "ok", "ok")

\* The items explored: all well; the recognition fails; a pattern file
\* cannot be opened; the rewrite and classification oracles are
\* unavailable and the transcript file cannot be written; the embedding
\* oracle fails; the index file cannot be written, at the first write and
\* at the second; the transcript folder cannot be created; the
\* classification oracle answers with a label that is no category.
Items ==
  {GoodItem,
   [GoodItem EXCEPT !.whisper = RecognitionFailed],
   [GoodItem EXCEPT !.pio1 = "open_error"],
   Item(RecognitionA, <<RateLimit, RateLimit, RateLimit>>, "ok", HttpError,
        Embedded(<<0, 1>>), "ok", "write_error", "ok"),
   [GoodItem EXCEPT !.embed = EmbedError],
   [GoodItem EXCEPT !.dio1 = "write_error"],
   [GoodItem EXCEPT !.dio2 = "open_error"],
   [GoodItem EXCEPT !.file = "mkdir_error"],
   [GoodItem EXCEPT !.classify = Ok(LabelFolder)]}

\* A path that does not exist.
MissingItem == [GoodItem EXCEPT !.exists = FALSE, !.path = "b.mp3"]

\* A batch holds up to MaxBatch audio files.
MaxBatch == 2

\* Texts given to apply_learned_patterns.
ApplyTexts == {<<>>, TextA, TextB, TextQuoted}

\* At most this many ids are given out in the runs that restart the program.
MaxIssued == 3

\* What can happen during one add_to_database call: the embedding oracle
\* raises, the first save fails, the transcript file fails, or the second
\* save ends in one of its outcomes.
AddOutcomes ==
  {[embed |-> EmbedError, io1 |-> "ok", file |-> "ok", io2 |-> "ok"]}
  \cup {[embed |-> Embedded(<<1, 0>>), io1 |-> io, file |-> "ok", io2 |-> "ok"] :
          io \in IoOutcomes \ {"ok"}}
  \cup {[embed |-> Embedded(<<1, 0>>), io1 |-> "ok", file |-> f, io2 |-> "ok"] :
          f \in FileOutcomes \ {"ok"}}
  \cup {[embed |-> Embedded(<<1, 0>>), io1 |-> "ok", file |-> "ok", io2 |-> io] :
          io \in IoOutcomes}

\* ---------------------------------------------------------------------------
\* Initial state: a fresh installation, right after construction
\* ---------------------------------------------------------------------------

Init ==
  /\ learned_corrections = <<>>
  /\ confidence_patterns = <<>>
  /\ learned_corrections_file = <<>>
  /\ confidence_patterns_file = <<>>
  /\ processing_stats =
       [total_files |-> 0, successful_transcriptions |-> 0,
        claude_corrections |-> 0, claude_classifications |-> 0,
        total_cost |-> 0, classification_cost |-> 0,
        processing_time |-> 0, learned_patterns |-> 0]
  /\ database = <<>>
  /\ db_file = <<>>
  /\ sentence_model = "None"
  /\ now = 0
  /\ batch = [status |-> "idle", total |-> 0, done |-> 0, success_count |-> 0,
              total_cost |-> 0, failure |-> "none"]
  /\ observed = <<>>
  /\ issued = <<>>
  /\ call = [op |-> "init"]
  /\ before = Snapshot

\* ---------------------------------------------------------------------------
\* Operations
\* ---------------------------------------------------------------------------

\* The pattern-file write outcomes that a call can meet: the files are
\* written only when something was learned, the second only after the first.
Io1Set(saving) == IF saving THEN IoOutcomes ELSE {"ok"}

Io2Set(saving, io1) == IF saving /\ io1 = "ok" THEN IoOutcomes ELSE {"ok"}

\* A direct call of transcribe_with_claude_correction.
Transcribe(whisper, responses, io1, io2, dt) ==
  /\ batch.status # "running"
  /\ now < MaxTime
  /\ \E t \in {transcribe_with_claude_correction(whisper, responses,
                                                 io1, io2, dt)} :
       /\ now' = now + 1
       /\ learned_corrections' = t.learned_corrections
       /\ confidence_patterns' = t.confidence_patterns
       /\ learned_corrections_file' = t.learned_corrections_file
       /\ confidence_patterns_file' = t.confidence_patterns_file
       /\ observed' = t.observed
       /\ processing_stats' = t.processing_stats
       /\ call' = [op |-> "transcribe", whisper |-> whisper,
                   responses |-> responses, api |-> t.api,
                   prompt |-> t.prompt, learned |-> t.learned,
                   storage_failed |-> t.storage_failed, result |-> t.result]
       /\ before' = Snapshot
       /\ UNCHANGED <<store_vars, batch>>

TranscribeAny ==
  /\ now < MaxTime
  /\ \E whisper \in Recognitions, dt \in Durations :
       IF whisper.kind = "failed"
       THEN Transcribe(whisper, <<>>, "ok", "ok", dt)
       ELSE \E responses \in ResponseRuns :
              \E saving \in {transcribe_with_claude_correction(
                               whisper, responses, "ok", "ok", dt).saving} :
                \E io1 \in Io1Set(saving) : \E io2 \in Io2Set(saving, io1) :
                  Transcribe(whisper, responses, io1, io2, dt)

NextTranscribe == TranscribeAny

SpecTranscribe == Init /\ [][NextTranscribe]_vars

\* The ids given out so far and that of the record an operation appended to
\* the collection, if it appended one.
Issue(db) ==
  IF Len(db) > Len(database)
  THEN Append(issued, [id |-> db[Len(db)].id, at |-> db[Len(db)].created_at])
  ELSE issued

\* A direct call of add_to_database.
AddToDatabase(source_type, source_path, title, original_transcript, corrected_transcript, category, processing_info, embed, io1, file, io2) ==
  /\ batch.status # "running"
  /\ Len(database) < MaxDb
  /\ \E a \in {add_to_database(database, db_file, sentence_model, now,
                               source_type,
                               source_path, title, original_transcript,
                               corrected_transcript, category,
                               processing_info, embed, io1, file, io2)} :
       /\ database' = a.database
       /\ db_file' = a.db_file
       /\ sentence_model' = a.sentence_model
       /\ issued' = Issue(a.database)
       /\ now' = IF embed.kind = "ok" THEN now + 1 ELSE now
       /\ call' = [op |-> "add_to_database", embed |-> embed, io1 |-> io1,
                   file |-> file, io2 |-> io2, raised |-> a.raised]
       /\ before' = Snapshot
       /\ UNCHANGED <<pattern_vars, processing_stats, batch, observed>>

\* A call of search_similar.
SearchSimilar(embed, top_k) ==
  /\ batch.status # "running"
  /\ \E r \in {search_similar(embed, top_k)} :
       /\ sentence_model' = r.sentence_model
       /\ call' = [op |-> "search_similar", embed |-> embed, top_k |-> top_k,
                   results |-> r.results, raised |-> r.raised,
                   encoded |-> r.encoded]
       /\ before' = Snapshot
       /\ UNCHANGED <<pattern_vars, processing_stats, database, db_file, now,
                      batch, observed, issued>>

\* The processing_info of a record added directly.
NoProcessingInfo ==
  [success |-> TRUE, original_transcript |-> TextB,
   corrected_transcript |-> OracleText2, claude_applied |-> TRUE,
   cost |-> _calculate_cost(TextB, OracleText2), processing_time |-> 2,
   word_level_data |-> <<>>, error |-> FALSE]

AddRecord ==
  \E v \in Vectors :
    AddToDatabase("file", "a.mp3", "a.mp3", TextB, OracleText2, Other,
                  NoProcessingInfo, Embedded(v), "ok", "ok", "ok")

Search ==
  \E embed \in {Embedded(v) : v \in Vectors} \cup {EmbedError} :
    \E top_k \in TopKs : SearchSimilar(embed, top_k)

NextSearch == AddRecord \/ Search

SpecSearch == Init /\ [][NextSearch]_vars

\* A direct call of learn_from_correction.
LearnFromCorrection(original_text, corrected_text, low_confidence_words, io1, io2) ==
  /\ batch.status # "running"
  /\ now < MaxTime
  /\ \E l \in {learn_from_correction(original_text, corrected_text,
                                     low_confidence_words, io1, io2)} :
       /\ learned_corrections' = l.learned_corrections
       /\ confidence_patterns' = l.confidence_patterns
       /\ learned_corrections_file' = l.learned_corrections_file
       /\ confidence_patterns_file' = l.confidence_patterns_file
       /\ processing_stats' =
            [processing_stats EXCEPT !.learned_patterns = @ + l.learned_patterns]
       /\ observed' = l.observed
       /\ call' = [op |-> "learn_from_correction",
                   original_text |-> original_text,
                   corrected_text |-> corrected_text,
                   low_confidence_words |-> low_confidence_words,
                   saving |-> l.saving, raised |-> l.raised]
       /\ before' = Snapshot
       /\ now' = now + 1
       /\ UNCHANGED <<store_vars, batch>>

Learn ==
  /\ now < MaxTime
  /\ \E texts \in LearnTexts : \E words \in LearnWordLists :
       \E io \in {<<"ok", "ok">>, <<"open_error", "ok">>,
                  <<"write_error", "ok">>, <<"ok", "write_error">>} :
         LearnFromCorrection(texts[1], texts[2], words, io[1], io[2])

\* A direct call of apply_learned_patterns.
ApplyLearnedPatterns(text) ==
  /\ call' = [op |-> "apply_learned_patterns", text |-> text,
              returned |-> apply_learned_patterns(text)]
  /\ before' = Snapshot
  /\ UNCHANGED <<pattern_vars, store_vars, processing_stats, now, batch,
                 observed>>

ApplyLearned == \E text \in ApplyTexts : ApplyLearnedPatterns(text)

NextLearn == Learn \/ ApplyLearned

SpecLearn == Init /\ [][NextLearn]_vars

\* A call of classify_text.
ClassifyText(text, response) ==
  /\ batch.status # "running"
  /\ processing_stats.claude_classifications < MaxClassified
  /\ \E c \in {classify_text(processing_stats, text, response)} :
       /\ processing_stats' = c.processing_stats
       /\ call' = [op |-> "classify_text", text |-> text,
                   response |-> response, category |-> c.category,
                   fallback_category |-> c.fallback_category]
       /\ before' = Snapshot
       /\ UNCHANGED <<pattern_vars, store_vars, now, batch, observed>>

Classify ==
  \E text \in ClassifyTexts : \E response \in ClassifyResponses :
    ClassifyText(text, response)

NextClassify == Classify

SpecClassify == Init /\ [][NextClassify]_vars

\* What process_audio_file leaves in the stores and counters.
Processed(p) ==
  /\ learned_corrections' = p.learned_corrections
  /\ confidence_patterns' = p.confidence_patterns
  /\ learned_corrections_file' = p.learned_corrections_file
  /\ confidence_patterns_file' = p.confidence_patterns_file
  /\ observed' = p.observed
  /\ processing_stats' = p.processing_stats
  /\ database' = p.database
  /\ db_file' = p.db_file
  /\ sentence_model' = p.sentence_model
  /\ issued' = Issue(p.database)
  /\ now' = p.now
  /\ before' = Snapshot

\* Menu choice 2: process_audio_file on one path.
ProcessAudioFile ==
  /\ batch.status # "running"
  /\ now < MaxTime
  /\ \E item \in Items \cup {MissingItem} :
       \E p \in {process_audio_file(item)} :
         /\ Processed(p)
         /\ call' = [op |-> "process_audio_file", item |-> item,
                     returned |-> p.returned, failure |-> p.failure,
                     category |-> p.category]
         /\ UNCHANGED batch

\* batch_process_folder up to its loop: the folder holds total audio files
\* and the user confirms.
BatchStart ==
  /\ batch.status # "running"
  /\ now < MaxTime
  /\ \E total \in 1..MaxBatch :
       batch' = [status |-> "running", total |-> total, done |-> 0,
                 success_count |-> 0, total_cost |-> 0, failure |-> "none"]
  /\ call' = [op |-> "batch_process_folder"]
  /\ before' = Snapshot
  /\ UNCHANGED <<pattern_vars, store_vars, processing_stats, now, observed>>

\* One iteration of the loop of batch_process_folder: the item is processed
\* and counted; an exception of process_audio_file leaves the loop and the
\* function.
BatchItem ==
  /\ batch.status = "running"
  /\ batch.done < batch.total
  /\ \E item \in Items :
       \E p \in {process_audio_file(item)} :
         /\ Processed(p)
         /\ call' = [op |-> "batch_item", item |-> item,
                     returned |-> p.returned, failure |-> p.failure,
                     category |-> p.category]
         /\ batch' =
              IF p.returned = "raise"
              THEN [batch EXCEPT !.status = "aborted",
                                 !.done = @ + 1,
                                 !.failure = p.failure]
              ELSE [batch EXCEPT
                      !.status = IF batch.done + 1 = batch.total
                                 THEN "done" ELSE "running",
                      !.done = @ + 1,
                      !.success_count =
                         IF p.returned = "true" THEN @ + 1 ELSE @,
                      !.total_cost =
                         IF p.returned = "true" /\ p.database # <<>>
                         THEN @ + p.database[Len(p.database)].processing_info.cost
                         ELSE @]

NextBatch == ProcessAudioFile \/ BatchStart \/ BatchItem

SpecBatch == Init /\ [][NextBatch]_vars

\* The program is started again: both constructors run. The pattern maps
\* and the collection are read from their files, the counters start at 0
\* and the embedding model is not loaded.
Restart ==
  /\ call.op # "restart"
  /\ learned_corrections' = load_learned_corrections(learned_corrections_file)
  /\ confidence_patterns' = load_confidence_patterns(confidence_patterns_file)
  /\ database' = load_database(db_file)
  /\ processing_stats' =
       [total_files |-> 0, successful_transcriptions |-> 0,
        claude_corrections |-> 0, claude_classifications |-> 0,
        total_cost |-> 0, classification_cost |-> 0,
        processing_time |-> 0, learned_patterns |-> 0]
  /\ sentence_model' = "None"
  /\ batch' = [status |-> "idle", total |-> 0, done |-> 0, success_count |-> 0,
               total_cost |-> 0, failure |-> "none"]
  /\ call' = [op |-> "restart"]
  /\ before' = Snapshot
  /\ UNCHANGED <<learned_corrections_file, confidence_patterns_file, db_file,
                 now, observed, issued>>

NextPersist == Learn \/ Restart

SpecPersist == Init /\ [][NextPersist]_vars

\* add_to_database with every outcome of its oracle and of its writes.
AddAny ==
  /\ Len(issued) < MaxIssued
  /\ \E o \in AddOutcomes :
       AddToDatabase("file", "a.mp3", "a.mp3", TextQuoted, TextSlashed, Other,
                     NoProcessingInfo, o.embed, o.io1, o.file, o.io2)

NextStore == AddAny \/ Restart

SpecStore == Init /\ [][NextStore]_vars

\* Every operation of the program.
Next ==
  \/ TranscribeAny
  \/ Learn
  \/ Classify
  \/ AddRecord
  \/ Search
  \/ ProcessAudioFile
  \/ BatchStart
  \/ BatchItem
  \/ Restart
  \/ ApplyLearned
  \/ AddAny

Spec == Init /\ [][Next]_vars

\* ---------------------------------------------------------------------------
\* Claims
\* ---------------------------------------------------------------------------

\* C1: whatever the rewrite oracle answers (text, rate limit, other error
\* status, request exception, or a 200 body without the text field), a
\* transcript whose speech recognition succeeded, and whose pattern files
\* could be written, finishes with success = true.
C1_OracleNeverAborts ==
  (/\ call.op = "transcribe"
   /\ call.whisper.kind = "ok"
   /\ ~call.storage_failed) => call.result.success

\* C2: when the rewrite oracle spent all its attempts and gave no text, the
\* final text is the built-in dictionary and then the learned corrections
\* (as they were before the call) applied to the cleaned text, no learning
\* ran, and the two maps, the two files and the learned-pattern counter are
\* what they were.
C2_ExhaustedFallsBack ==
  (call.op = "transcribe" /\ call.api.kind = "none") =>
    /\ call.api.requests = max_retries
    /\ call.result.success
    /\ call.result.corrected_transcript =
         ApplyPatterns(before.learned_corrections,
                       ApplyDictionary(whisper_patterns,
                                       _clean_text_basic(call.whisper.text), 1),
                       1)
    /\ ~call.learned
    /\ learned_corrections = before.learned_corrections
    /\ confidence_patterns = before.confidence_patterns
    /\ learned_corrections_file = before.learned_corrections_file
    /\ confidence_patterns_file = before.confidence_patterns_file
    /\ processing_stats.learned_patterns =
         before.processing_stats.learned_patterns

\* C2 witness: an exhausted call on a store that holds a learned correction,
\* and that correction changed the text the built-in dictionary produced.
C2_Witness ==
  /\ call.op = "transcribe"
  /\ call.api.kind = "none"
  /\ learned_corrections # <<>>
  /\ call.result.corrected_transcript #
       ApplyDictionary(whisper_patterns,
                       _clean_text_basic(call.whisper.text), 1)
  /\ call.result.corrected_transcript # _clean_text_basic(call.whisper.text)
  /\ _clean_text_basic(call.whisper.text) # call.whisper.text

\* C3: in batch_process_folder a recognition failure or a storage write
\* failure (pattern files, index file) on one item aborts only that item:
\* the batch goes on to its remaining items or, after the last, completes.
C3_FailureAbortsItemOnly ==
  (/\ call.op = "batch_item"
   /\ call.failure \in {"recognition", "pattern_files", "index_file"}) =>
     /\ batch.status = IF batch.done = batch.total THEN "done" ELSE "running"
     /\ batch.failure = "none"

\* A search that returned.
Searched == call.op = "search_similar" /\ ~call.raised

\* The similarities of a result are non-increasing from first to last.
NonIncreasing(results) ==
  \A i \in 1..Len(results) : \A j \in (i + 1)..Len(results) :
    ~FracLess(results[i].similarity, results[j].similarity)

\* C4 as stated: for every top_k, search_similar returns exactly
\* min(top_k, storeSize) results, with non-increasing similarities.
C4_LengthForEveryK ==
  Searched =>
    /\ Len(call.results) = Min(call.top_k, Len(database))
    /\ NonIncreasing(call.results)

\* C4 amended: for every top_k >= 0, search_similar returns exactly
\* min(top_k, storeSize) results; for every top_k the similarities of the
\* result are non-increasing.
C4_LengthForNonNegativeK ==
  Searched =>
    /\ call.top_k >= 0 => Len(call.results) = Min(call.top_k, Len(database))
    /\ NonIncreasing(call.results)

\* C4 witness: a search with 2 <= top_k < storeSize whose result has
\* top_k entries and a strict decrease, and the store is larger than top_k.
C4_Witness ==
  /\ Searched
  /\ call.top_k >= 2
  /\ Len(database) > call.top_k
  /\ Len(call.results) = call.top_k
  /\ FracLess(call.results[2].similarity, call.results[1].similarity)

\* C5: search_similar returns an empty sequence for every top_k <= 0.
C5_EmptyForNonPositiveK ==
  (Searched /\ call.top_k <= 0) => call.results = <<>>

\* C6: on an empty collection search_similar returns an empty sequence for
\* any query and any top_k, does not ask the embedding oracle (so an oracle
\* that would have failed is not met) and does not load the model.
C6_EmptyStoreNoOracle ==
  (call.op = "search_similar" /\ database = <<>>) =>
    /\ call.results = <<>>
    /\ ~call.raised
    /\ ~call.encoded
    /\ sentence_model = before.sentence_model

\* C6 witness: a search with top_k > 0 on the empty collection, at a moment
\* when the embedding oracle would have failed.
C6_Witness ==
  /\ call.op = "search_similar"
  /\ database = <<>>
  /\ call.top_k > 0
  /\ call.embed.kind = "error"
  /\ call.results = <<>>

\* The records of the collection that a result does not hold.
NotReturned(results) ==
  {i \in 1..Len(database) :
     \A j \in 1..Len(results) : results[j].entry.id # database[i].id}

\* C7: results come by similarity descending, two results of equal
\* similarity in the order of the collection (the earlier record first),
\* each with the cosine of the query and its record, and no record left
\* out is strictly more similar than a returned one.
C7_StableDescending ==
  Searched =>
    /\ \A i \in 1..Len(call.results) :
         /\ \E p \in 1..Len(database) : call.results[i].entry = database[p]
         /\ call.results[i].similarity =
              cosine_similarity(call.embed.vector,
                                call.results[i].entry.embedding)
    /\ \A i \in 1..Len(call.results) : \A j \in (i + 1)..Len(call.results) :
         /\ ~FracLess(call.results[i].similarity, call.results[j].similarity)
         /\ FracEq(call.results[i].similarity, call.results[j].similarity)
              => call.results[i].entry.id < call.results[j].entry.id
    /\ \A p \in NotReturned(call.results) : \A j \in 1..Len(call.results) :
         ~FracLess(call.results[j].similarity,
                   cosine_similarity(call.embed.vector, database[p].embedding))

\* C7 witness: a result holding two records of equal similarity with
\* different embeddings, and a less similar record left out.
C7_Witness ==
  /\ Searched
  /\ Len(call.results) >= 2
  /\ FracEq(call.results[1].similarity, call.results[2].similarity)
  /\ call.results[1].entry.embedding # call.results[2].entry.embedding
  /\ NotReturned(call.results) # {}

\* The pairwise-decayed value of the first n observations, as a fraction:
\* a(1) = c(1), a(i) = (a(i-1) + c(i)) / 2.
RECURSIVE Decayed(_, _)
Decayed(obs, n) ==
  IF n = 1 THEN <<obs[1].confidence, 1>>
  ELSE LET a == Decayed(obs, n - 1)
       IN  <<a[1] + obs[n].confidence * a[2], 2 * a[2]>>

\* The sum of the first n observed confidences.
RECURSIVE SumObserved(_, _)
SumObserved(obs, n) ==
  IF n = 0 THEN 0 ELSE SumObserved(obs, n - 1) + obs[n].confidence

\* C8: a token observed n times through learn_from_correction has a
\* pattern whose count is n, whose avg_confidence is the pairwise-decayed
\* value of its confidences in order, and whose first_seen is the time of
\* the first observation.
C8_PairwiseDecay ==
  \A word \in DOMAIN observed :
    /\ HasKey(confidence_patterns, word)
    /\ LET p == confidence_patterns[IndexOf(confidence_patterns, word)]
           n == Len(observed[word])
       IN  /\ p.count = n
           /\ FracEq(p.avg_confidence, Decayed(observed[word], n))
           /\ p.first_seen = observed[word][1].at

\* C8 witness: a token observed three times and more, over two calls made
\* at different times, whose decayed value differs from its arithmetic mean.
C8_Witness ==
  \E word \in DOMAIN observed :
    LET n == Len(observed[word])
        p == confidence_patterns[IndexOf(confidence_patterns, word)]
    IN  /\ n >= 3
        /\ p.count = n
        /\ observed[word][n].at > observed[word][1].at
        /\ ~FracEq(p.avg_confidence, <<SumObserved(observed[word], n), n>>)

\* The label the classification oracle returned, as the caller reads it.
OracleLabel == Strip(call.response.text)

\* The oracle returned a label of the enumerated category set.
OracleLabelValid ==
  call.response.kind = "ok" /\ HasKey(category_folders, OracleLabel)

\* C9: when the classification oracle returns a label of the enumerated
\* category set, classify_text returns that label whatever the keyword
\* scores are.
C9_OracleLabelWins ==
  (call.op = "classify_text" /\ OracleLabelValid) =>
    call.category = OracleLabel

\* C9 witness: the oracle returned a category while another category had
\* the highest keyword score, and classify_text returned the oracle's.
C9_Witness ==
  /\ call.op = "classify_text"
  /\ OracleLabelValid
  /\ call.response.text = OracleLabel
  /\ call.fallback_category # Other
  /\ call.fallback_category # OracleLabel
  /\ call.category = OracleLabel

\* Every keyword score of the classified text is 0.
NoKeywordHit ==
  \A i \in 1..Len(category_keywords) :
    \A j \in 1..Len(category_keywords[i].keywords) :
      ~Contains(Lower(call.text), Lower(category_keywords[i].keywords[j]))

\* C10: when the classification oracle fails or returns a label outside
\* the enumerated set, classify_text returns the keyword category, which
\* is 'その他' when every keyword score is 0, and counts no classification.
C10_FallbackToKeywords ==
  (call.op = "classify_text" /\ ~OracleLabelValid) =>
    /\ call.category = KeywordCategory(call.text)
    /\ NoKeywordHit => call.category = Other
    /\ ~NoKeywordHit =>
         \E scores \in {CategoryScores(call.text)} :
           \E i \in 1..Len(category_keywords) :
             /\ call.category = category_keywords[i].key
             /\ \A j \in 1..Len(category_keywords) : scores[j] <= scores[i]
    /\ processing_stats = before.processing_stats

\* C10 witness: the oracle returned a label that is no category for a text
\* without a keyword, and classify_text returned 'その他'.
C10_Witness ==
  /\ call.op = "classify_text"
  /\ call.response.kind = "ok"
  /\ OracleLabel # <<>>
  /\ ~OracleLabelValid
  /\ NoKeywordHit
  /\ call.category = Other

\* A string of the enumerated category set, 'その他' included.
IsCategory(category) == HasKey(category_folders, category)

\* C11: the value classify_text returns is a category of the enumerated
\* set or 'その他', whatever the text and the oracle's answer, and so is the
\* category of every record that process_audio_file stored.
C11_CategoryInEnumeratedSet ==
  /\ call.op = "classify_text" => IsCategory(call.category)
  /\ (call.op \in {"process_audio_file", "batch_item"}
       /\ call.returned # "false") => IsCategory(call.category)
  /\ \A i \in 1..Len(database) : IsCategory(database[i].category)

\* C11 witness: a record stored after the classification oracle answered
\* with a label that is no category.
C11_Witness ==
  /\ call.op \in {"process_audio_file", "batch_item"}
  /\ call.returned = "true"
  /\ call.item.classify.kind = "ok"
  /\ ~IsCategory(Strip(call.item.classify.text))
  /\ database # <<>>
  /\ database[Len(database)].category = call.category
  /\ call.category = Other

\* C12: the learned-correction map and the confidence map, written by their
\* save functions and read back by their load functions, are the maps that
\* were in memory: same keys in the same order, same values. So it is after
\* every learn_from_correction call that saved both files.
C12_SaveLoadRoundTrip ==
  /\ load_learned_corrections(
       save_learned_corrections(learned_corrections_file,
                                learned_corrections, "ok"))
       = learned_corrections
  /\ load_confidence_patterns(
       save_confidence_patterns(confidence_patterns_file,
                                confidence_patterns, "ok"))
       = confidence_patterns
  /\ (call.op = "learn_from_correction" /\ call.saving /\ ~call.raised) =>
       /\ load_learned_corrections(learned_corrections_file)
            = learned_corrections
       /\ load_confidence_patterns(confidence_patterns_file)
            = confidence_patterns

\* C12 witness: a learn_from_correction call saved two learned corrections,
\* one with characters that JSON escapes, and two confidence patterns, one
\* of them observed more than once.
C12_Witness ==
  /\ call.op = "learn_from_correction" /\ call.saving /\ ~call.raised
  /\ Len(learned_corrections) >= 2
  /\ \E i \in 1..Len(learned_corrections) :
       learned_corrections_file[i].name # learned_corrections[i].key
  /\ Len(confidence_patterns) >= 2
  /\ \E i \in 1..Len(confidence_patterns) : confidence_patterns[i].count >= 2

\* No key of the learned-correction map d is a substring of text.
NoKeyOccurs(d, text) == \A i \in 1..Len(d) : ~Contains(text, d[i].key)

\* C13: when no key of the learned-correction map occurs in the text,
\* apply_learned_patterns returns the text as it was given and the
\* learned-correction map is what it was before the call.
C13_NoKeyNoChange ==
  (call.op = "apply_learned_patterns"
     /\ NoKeyOccurs(before.learned_corrections, call.text)) =>
    /\ call.returned = call.text
    /\ learned_corrections = before.learned_corrections

\* C13 witness: a text with a key of the built-in dictionary went through a
\* map of two learned corrections, none of whose keys it holds.
C13_Witness ==
  /\ call.op = "apply_learned_patterns"
  /\ Len(before.learned_corrections) >= 2
  /\ NoKeyOccurs(before.learned_corrections, call.text)
  /\ ~NoKeyOccurs(whisper_patterns, call.text)
  /\ call.returned = call.text

\* The i-th record of the collection has id i.
IdsArePositions == \A i \in 1..Len(database) : database[i].id = i

\* The record an add_to_database call appended got id len(store) + 1.
AddAssignsNextId ==
  (call.op = "add_to_database" /\ Len(database) > Len(before.database)) =>
    database[Len(database)].id = Len(before.database) + 1

\* No id was given out twice.
IdsNeverReused ==
  \A i, j \in 1..Len(issued) : i # j => issued[i].id # issued[j].id

\* C14: after any sequence of adds, adds after a load from disk or after a
\* failed load included, each add assigned id len(store) + 1, the i-th
\* record has id i, and no id was assigned to two different records.
C14_IdsMonotonicNeverReused ==
  /\ AddAssignsNextId
  /\ IdsArePositions
  /\ IdsNeverReused

\* The operation that ran last is an add_to_database call that returned.
AddCompleted == call.op = "add_to_database" /\ ~call.raised

\* C15: an add_to_database call that returned appended exactly one record at
\* the end of the collection, the records that were there keep their place
\* and content, and the index file holds the whole collection, with the
\* saved_file_path of the new record when the transcript file was written.
C15_AddAppendsAndPersists ==
  AddCompleted =>
    /\ Len(database) = Len(before.database) + 1
    /\ SubSeq(database, 1, Len(before.database)) = before.database
    /\ db_file # Partial
    /\ db_file = DumpDatabase(database, 1)
    /\ load_database(db_file) = database
    /\ call.file = "ok" =>
         /\ database[Len(database)].saved_file_path = "path"
         /\ db_file[Len(db_file)].saved_file_path = "path"

\* C15 witness: a second record, whose texts JSON escapes, was added to a
\* collection of one and its transcript file was written.
C15_Witness ==
  /\ AddCompleted
  /\ call.file = "ok"
  /\ Len(before.database) >= 1
  /\ Len(database) = 2
  /\ database[2].saved_file_path = "path"
  /\ db_file # Partial
  /\ db_file[2].original_transcript # database[2].original_transcript

\* C16: when the transcript file fails at any step (folder creation, open,
\* write, existence check), add_to_database still returns normally, the
\* record is in the collection and in the index file, and it has no
\* saved_file_path.
C16_TranscriptFailureTolerated ==
  (call.op = "add_to_database" /\ call.embed.kind = "ok" /\ call.io1 = "ok"
     /\ call.file # "ok") =>
    /\ ~call.raised
    /\ Len(database) = Len(before.database) + 1
    /\ database[Len(database)].saved_file_path = NoPath
    /\ load_database(db_file) = database

\* The operation that ran last is a learn_from_correction call that wrote
\* both files and returned.
LearnSaved == call.op = "learn_from_correction" /\ call.saving /\ ~call.raised

\* C17: a pattern file or confidence file that cannot be parsed is loaded
\* as the empty mapping, without raising; the program goes on, and the next
\* save writes into the file the entries learned since that load and
\* nothing else.
C17_UnparsableFileLoadsEmpty ==
  /\ (call.op = "restart" /\ learned_corrections_file = Partial) =>
       learned_corrections = <<>>
  /\ (call.op = "restart" /\ confidence_patterns_file = Partial) =>
       confidence_patterns = <<>>
  /\ (LearnSaved /\ before.learned_corrections_file = Partial
        /\ before.learned_corrections = <<>>) =>
       learned_corrections_file =
         DumpCorrections(LearnWords(<<>>, Split(call.original_text),
                                    Split(call.corrected_text), 1), 1)
  /\ (LearnSaved /\ before.confidence_patterns_file = Partial
        /\ before.confidence_patterns = <<>>) =>
       confidence_patterns_file =
         DumpConfidence(LearnConfidence(<<>>, call.low_confidence_words, 1,
                                        now - 1), 1)

\* C17 witness: the learned-correction file could not be parsed, the map
\* was loaded empty, and the next learn_from_correction call wrote a file
\* with the one correction it learned.
C17_Witness ==
  /\ LearnSaved
  /\ before.learned_corrections_file = Partial
  /\ before.learned_corrections = <<>>
  /\ Len(learned_corrections) = 1
  /\ learned_corrections_file # Partial
  /\ Len(learned_corrections_file) = 1

\* The operation that ran last is a transcription whose speech recognition
\* succeeded.
Recognized == call.op = "transcribe" /\ call.whisper.kind = "ok"

\* C18 as stated: every transcript whose speech recognition succeeded adds
\* one to the success count and to the correction count, its cost to the
\* accumulated cost and its time to the accumulated processing time, with
\* or without text from the rewrite oracle.
C18_AllCountersUpdated ==
  Recognized =>
    /\ processing_stats.successful_transcriptions =
         before.processing_stats.successful_transcriptions + 1
    /\ processing_stats.claude_corrections =
         before.processing_stats.claude_corrections + 1
    /\ processing_stats.total_cost =
         before.processing_stats.total_cost + call.result.cost
    /\ processing_stats.processing_time =
         before.processing_stats.processing_time + call.result.processing_time

\* The result is a success with the rewrite oracle's text.
CorrectionApplied == call.result.success /\ call.result.claude_applied

\* C18 (amended): every transcript whose speech recognition succeeded adds
\* its time to the accumulated processing time; the success count grows by
\* one exactly when the result is a success; the correction count grows by
\* one and the accumulated cost by the result's cost exactly when the result
\* is a success with the oracle's text. After a fallback to the
\* pattern-corrected text the correction count and the cost are unchanged.
C18_CountersFollowOutcome ==
  Recognized =>
    /\ processing_stats.processing_time =
         before.processing_stats.processing_time + call.result.processing_time
    /\ processing_stats.successful_transcriptions =
         before.processing_stats.successful_transcriptions
           + (IF call.result.success THEN 1 ELSE 0)
    /\ processing_stats.claude_corrections =
         before.processing_stats.claude_corrections
           + (IF CorrectionApplied THEN 1 ELSE 0)
    /\ processing_stats.total_cost =
         before.processing_stats.total_cost
           + (IF CorrectionApplied THEN call.result.cost ELSE 0)
    /\ CorrectionApplied => call.result.cost > 0

\* C18 witness: after a transcript that the oracle rewrote, a transcript
\* fell back to the pattern-corrected text; it counted as a success and
\* the correction count stayed at one.
C18_Witness ==
  /\ Recognized
  /\ call.api.kind = "none"
  /\ call.result.success
  /\ ~call.result.claude_applied
  /\ before.processing_stats.claude_corrections = 1
  /\ processing_stats.claude_corrections = 1
  /\ processing_stats.successful_transcriptions = 2
  /\ processing_stats.processing_time > before.processing_stats.processing_time

\* An attempt that failed in one of the ways _call_claude_api retries:
\* rate limit, another error status, or a request exception.
FailedAttempt(response) ==
  response.kind \in {"rate_limit", "http_error", "exception"}

\* The first n - 1 answers are failed attempts.
FailedBefore(responses, n) ==
  \A m \in 1..(n - 1) : FailedAttempt(responses[m])

\* C19: _call_claude_api ends after at most max_retries requests; at the
\* first attempt that succeeds it returns the oracle's text and sends no
\* further request; when max_retries attempts failed by rate limit, error
\* status or request exception it returns None and does not raise.
C19_BoundedRetries ==
  Recognized =>
    /\ call.api.kind \in {"text", "none", "raise"}
    /\ call.api.requests <= max_retries
    /\ \A n \in 1..Min(Len(call.responses), max_retries) :
         (call.responses[n].kind = "ok" /\ FailedBefore(call.responses, n)) =>
           /\ call.api.kind = "text"
           /\ call.api.text = Strip(call.responses[n].text)
           /\ call.api.requests = n
    /\ (Len(call.responses) >= max_retries
          /\ FailedBefore(call.responses, max_retries + 1)) =>
         /\ call.api.kind = "none"
         /\ call.api.requests = max_retries

\* C19 witness: the first attempt was rate limited, the second gave text;
\* two requests were sent and the text was returned.
C19_Witness ==
  /\ Recognized
  /\ Len(call.responses) = 2
  /\ call.responses[1].kind = "rate_limit"
  /\ call.responses[2].kind = "ok"
  /\ call.api.kind = "text"
  /\ call.api.requests = 2
  /\ call.api.text # <<>>

\* The operation that ran last is a learn_from_correction call that returned
\* and that added a learned correction, added a confidence pattern or
\* updated one.
LearnChanged ==
  /\ call.op = "learn_from_correction" /\ ~call.raised
  /\ \/ learned_corrections # before.learned_corrections
     \/ confidence_patterns # before.confidence_patterns

\* A learn_from_correction call that changed a map wrote both files.
ChangeIsSaved == LearnChanged => call.saving

\* C20: a learn_from_correction call that added a learned correction, added
\* a confidence pattern or updated the count and average of a known one
\* wrote both files before it returned, and after every call that returned
\* the pattern file and the confidence file hold the maps that are in
\* memory.
C20_LearnAlwaysPersists ==
  /\ ChangeIsSaved
  /\ (call.op = "learn_from_correction" /\ ~call.raised) =>
       /\ load_learned_corrections(learned_corrections_file)
            = learned_corrections
       /\ load_confidence_patterns(confidence_patterns_file)
            = confidence_patterns

\* Position i of the token lists ow and cw is a pair learn_from_correction
\* records on the map old: the tokens differ, both are longer than 2
\* characters and the raw token is no key of old.
Learnable(old, ow, cw, i) ==
  /\ ow[i] # cw[i]
  /\ Len(ow[i]) > 2
  /\ Len(cw[i]) > 2
  /\ ~HasKey(old, ow[i])

\* The first learnable position that holds the same raw token as position i.
FirstLearnable(old, ow, cw, i) ==
  CHOOSE j \in 1..i :
    /\ ow[j] = ow[i] /\ Learnable(old, ow, cw, j)
    /\ \A m \in 1..(j - 1) : ~(ow[m] = ow[i] /\ Learnable(old, ow, cw, m))

\* What one learn_from_correction call on texts original and corrected did
\* to the learned-correction map old, giving new.
LearnedByPosition(old, new, original, corrected) ==
  LET ow == Split(original)
      cw == Split(corrected)
      n == Min(Len(ow), Len(cw))
  IN  /\ Len(new) >= Len(old)
      /\ SubSeq(new, 1, Len(old)) = old
      /\ \A i \in 1..n :
           Learnable(old, ow, cw, i) =>
             /\ HasKey(new, ow[i])
             /\ Lookup(new, ow[i]).val = cw[FirstLearnable(old, ow, cw, i)]
      /\ \A e \in (Len(old) + 1)..Len(new) :
           \E i \in 1..n :
             /\ Learnable(old, ow, cw, i)
             /\ new[e].key = ow[i]
             /\ new[e].val = cw[i]
      /\ \A e, f \in 1..Len(new) : new[e].key = new[f].key => e = f

\* C21: learn_from_correction pairs the whitespace tokens of the raw and
\* the corrected text by position up to the shorter length and records
\* raw -> corrected exactly for the pairs that differ, are both longer than
\* 2 characters and whose raw token is not yet a key; so every learned
\* entry has a key different from its value, both longer than 2 characters,
\* and an entry that is present keeps its value through later calls.
C21_PositionalLearning ==
  /\ \A e \in 1..Len(learned_corrections) :
       /\ learned_corrections[e].key # learned_corrections[e].val
       /\ Len(learned_corrections[e].key) > 2
       /\ Len(learned_corrections[e].val) > 2
  /\ call.op = "learn_from_correction" =>
       LearnedByPosition(before.learned_corrections, learned_corrections,
                         call.original_text, call.corrected_text)

\* C21 witness: a call offered another correction for a raw token that was
\* a key already; the map kept the value learned first.
C21_Witness ==
  /\ call.op = "learn_from_correction"
  /\ before.learned_corrections # <<>>
  /\ learned_corrections = before.learned_corrections
  /\ \E i \in 1..Min(Len(Split(call.original_text)),
                     Len(Split(call.corrected_text))) :
       /\ HasKey(learned_corrections, Split(call.original_text)[i])
       /\ Len(Split(call.corrected_text)[i]) > 2
       /\ Split(call.corrected_text)[i] # Split(call.original_text)[i]
       /\ Lookup(learned_corrections, Split(call.original_text)[i]).val
            # Split(call.corrected_text)[i]

\* C22: the tokens the pipeline hands to learn_from_correction are the
\* low-confidence tokens of the transcript, so every observation behind a
\* confidence pattern has a confidence strictly below 0.5 (50 percent).
C22_OnlyLowConfidenceLearned ==
  \A word \in DOMAIN observed :
    \A n \in 1..Len(observed[word]) : observed[word][n].confidence < 50

\* C23: in the rewrite stage every failed attempt that is followed by
\* another attempt is followed by a wait of 2^attempt seconds first (1 s
\* after attempt 0, 2 s after attempt 1), whether it failed by rate limit,
\* by another error status or by a request exception: the i-th wait of a
\* call that sent more than i requests is 2^(i-1) seconds.
C23_BackoffBetweenAttempts ==
  Recognized =>
    \A i \in 1..(call.api.requests - 1) :
      /\ Len(call.api.sleeps) >= i
      /\ call.api.sleeps[i] = Pow2(i - 1)

\* The oracle call of the transcription that ran last returned text.
OracleGaveText == call.api.kind = "text" /\ call.api.text # <<>>

\* The pattern-corrected text of the transcription that ran last.
PatternCorrected ==
  ApplyPatterns(before.learned_corrections,
                ApplyDictionary(whisper_patterns,
                                _clean_text_basic(call.whisper.text), 1), 1)

\* What the resolve step leaves in the result of the transcription.
Resolved ==
  IF OracleGaveText
  THEN /\ call.result.corrected_transcript = call.api.text
       /\ call.result.claude_applied
       /\ call.result.cost = _calculate_cost(call.whisper.text, call.api.text)
       /\ call.learned
  ELSE /\ call.result.corrected_transcript = PatternCorrected
       /\ ~call.result.claude_applied
       /\ call.result.cost = 0
       /\ ~call.learned

\* The resolve step holds on every transcription whose oracle call returned.
ResolvedWhenOracleReturns ==
  (Recognized /\ call.api.kind \in {"text", "none"}) => Resolved

\* C24: exactly when the oracle call returned text, the final text is the
\* oracle's text, the correction is marked as applied, the cost is computed
\* and learn_from_correction ran once on the raw text and the oracle's text;
\* in every other case the final text is the pattern-corrected text, the
\* correction is not marked as applied and the cost is 0.
C24_ResolveStep == Recognized => Resolved

\* C25: a classify_text call whose oracle returned a label of the
\* enumerated category set adds one to the classification counter and the
\* classification cost of the text to the classification-cost sum; a call
\* whose oracle failed or returned another label leaves both as they were.
C25_ClassificationCounted ==
  call.op = "classify_text" =>
    IF OracleLabelValid
    THEN /\ processing_stats.claude_classifications =
              before.processing_stats.claude_classifications + 1
         /\ processing_stats.classification_cost =
              before.processing_stats.classification_cost
                + _calculate_classification_cost(call.text)
         /\ processing_stats.classification_cost >
              before.processing_stats.classification_cost
    ELSE /\ processing_stats.claude_classifications =
              before.processing_stats.claude_classifications
         /\ processing_stats.classification_cost =
              before.processing_stats.classification_cost

\* C25 witness: after a call that was counted, the oracle answered with a
\* label outside the enumerated set and the counter and the cost stayed.
C25_Witness ==
  /\ call.op = "classify_text"
  /\ call.response.kind = "ok"
  /\ ~OracleLabelValid
  /\ before.processing_stats.claude_classifications = 1
  /\ processing_stats.claude_classifications = 1
  /\ processing_stats.classification_cost > 0
  /\ processing_stats.classification_cost =
       before.processing_stats.classification_cost

\* The number of places of text where keyword occurs, letter case ignored.
Occurrences(text, keyword) ==
  Cardinality({i \in 1..(Len(text) - Len(keyword) + 1) :
                 Lower(SubSeq(text, i, i + Len(keyword) - 1)) = Lower(keyword)})

\* The occurrences in text of the first n keywords of a list.
RECURSIVE TotalOccurrences(_, _, _)
TotalOccurrences(text, keywords, n) ==
  IF n = 0 THEN 0
  ELSE TotalOccurrences(text, keywords, n - 1) + Occurrences(text, keywords[n])

\* The total of the i-th category of the keyword table on text.
CategoryTotal(text, i) ==
  TotalOccurrences(text, category_keywords[i].keywords,
                   Len(category_keywords[i].keywords))

\* C26: the keyword result is the category whose keywords occur most often
\* in the text, letter case ignored; of several categories with the
\* greatest total above 0 the one declared first; 'その他' when every total
\* is 0.
C26_KeywordResult ==
  call.op = "classify_text" =>
    IF \A i \in 1..Len(category_keywords) : CategoryTotal(call.text, i) = 0
    THEN call.fallback_category = Other
    ELSE \E i \in 1..Len(category_keywords) :
           /\ call.fallback_category = category_keywords[i].key
           /\ CategoryTotal(call.text, i) > 0
           /\ \A j \in 1..Len(category_keywords) :
                CategoryTotal(call.text, j) <= CategoryTotal(call.text, i)
           /\ \A j \in 1..(i - 1) :
                CategoryTotal(call.text, j) < CategoryTotal(call.text, i)

\* C26 witness: with no usable oracle label, a text with one occurrence of
\* a keyword of the first category and two, in mixed case, of keywords of
\* the second was given the second category.
C26_Witness ==
  /\ call.op = "classify_text"
  /\ ~OracleLabelValid
  /\ call.text = ClassifyTextMixed
  /\ CategoryTotal(call.text, 1) = 1
  /\ CategoryTotal(call.text, 2) = 2
  /\ call.fallback_category = category_keywords[2].key
  /\ call.category = LabelTech

\* text with every occurrence of key, taken from the left, replaced by val.
RECURSIVE Rewritten(_, _, _)
Rewritten(text, key, val) ==
  IF Len(text) < Len(key) \/ key = <<>> THEN text
  ELSE IF SubSeq(text, 1, Len(key)) = key
       THEN val \o Rewritten(SubSeq(text, Len(key) + 1, Len(text)), key, val)
       ELSE <<text[1]>> \o Rewritten(SubSeq(text, 2, Len(text)), key, val)

\* The left-to-right fold of the first n rules over text.
RECURSIVE FoldRules(_, _, _)
FoldRules(rules, text, n) ==
  IF n = 0 THEN text
  ELSE Rewritten(FoldRules(rules, text, n - 1), rules[n].key, rules[n].val)

\* The rules of the pattern-correct step of the transcription that ran
\* last: the built-in dictionary, then the learned corrections it found.
PatternRules == whisper_patterns \o before.learned_corrections

\* C27: the pattern-corrected text is the left-to-right fold, over the
\* cleaned text, of the built-in dictionary in its order and then the
\* learned corrections in insertion order, each rule replacing every
\* occurrence of its key in the text as the rules before it left it.
C27_PatternCorrectIsFold ==
  Recognized =>
    call.prompt.text =
      FoldRules(PatternRules, _clean_text_basic(call.whisper.text),
                Len(PatternRules))

\* '地民党'
KeyJimintou == whisper_patterns[1].key

\* C27 witness: a text with '地民党' and '石橋ロシ' came out with '自民党'
\* replaced again: a learned correction acted on an occurrence of its key
\* that the built-in dictionary had produced.
C27_Witness ==
  /\ Recognized
  /\ Contains(call.whisper.text, KeyJimintou)
  /\ Contains(call.whisper.text, whisper_patterns[2].key)
  /\ Contains(call.prompt.text, whisper_patterns[2].val)
  /\ ~Contains(call.prompt.text, KeyJimintou)
  /\ \E e \in 1..Len(before.learned_corrections) :
       LET key == before.learned_corrections[e].key
           cleaned == _clean_text_basic(call.whisper.text)
       IN  /\ Contains(key, whisper_patterns[1].val)
           /\ Count(cleaned, key)
                < Count(ApplyDictionary(whisper_patterns, cleaned, 1), key)
           /\ ~Contains(call.prompt.text, key)

\* C28: a transcription that reports success = false leaves the pattern
\* store as it was: the two maps in memory, the two files and the
\* learned-pattern counter are unchanged.
C28_FailedTranscriptLeavesPatterns ==
  (call.op = "transcribe" /\ ~call.result.success) =>
    /\ learned_corrections = before.learned_corrections
    /\ confidence_patterns = before.confidence_patterns
    /\ learned_corrections_file = before.learned_corrections_file
    /\ confidence_patterns_file = before.confidence_patterns_file
    /\ processing_stats.learned_patterns =
         before.processing_stats.learned_patterns

\* The embedding could not be computed or a write of the index file did
\* not complete (the second write happens when the transcript was saved).
AddFailed ==
  /\ call.op = "add_to_database"
  /\ \/ call.embed.kind # "ok"
     \/ call.io1 # "ok"
     \/ call.file = "ok" /\ call.io2 # "ok"

\* C29: when computing the embedding or persisting the index file fails,
\* add_to_database leaves the in-memory collection as it was before the call.
C29_AddAllOrNothing ==
  AddFailed => database = before.database

\* The part of C29 that concerns the embedding alone.
C29_EmbeddingFailureAddsNothing ==
  (call.op = "add_to_database" /\ call.embed.kind # "ok") =>
    database = before.database

\* The part of C29 that concerns the first write of the index file.
C29_FirstWriteFailureAddsNothing ==
  (call.op = "add_to_database" /\ call.embed.kind = "ok" /\ call.io1 # "ok") =>
    database = before.database

\* An item-processing operation has just ended.
ItemProcessed == call.op \in {"process_audio_file", "batch_item"}

\* The classification coverage that show_processing_stats displays, in
\* percent, rounded down; it is displayed only when a transcription succeeded.
ClassificationCoverage ==
  (processing_stats.claude_classifications * 100)
    \div processing_stats.successful_transcriptions

\* C30: after every item-processing operation the correction count and the
\* classification count are each at most the successful-transcription count,
\* the total cost is 0 whenever the correction count is 0, and so the
\* displayed classification coverage is at most 100%.
C30_CountersBounded ==
  ItemProcessed =>
    /\ processing_stats.claude_corrections
         <= processing_stats.successful_transcriptions
    /\ processing_stats.claude_classifications
         <= processing_stats.successful_transcriptions
    /\ (processing_stats.claude_corrections = 0
          => processing_stats.total_cost = 0)
    /\ (processing_stats.successful_transcriptions > 0
          => ClassificationCoverage <= 100)

\* Two items were transcribed, one of them without a correction and
\* without a counted classification.
C30_Witness ==
  /\ ItemProcessed
  /\ processing_stats.successful_transcriptions = 2
  /\ processing_stats.claude_corrections = 1
  /\ processing_stats.claude_classifications = 1
  /\ processing_stats.total_cost > 0
====
